---- MODULE Spec2Model ----
(***************************************************************************)
(* Model of the market-data ingestion core of okx_spot_future_arbitrage:   *)
(*   data_source/spiders/base_spider.py  (BaseWSClient, NewOrderBookManager)*)
(*   data_source/spiders/okex_spider.py  (OkexWSClient.handle_books, ...)   *)
(* and of its authenticated client:                                        *)
(*   clients/base.py (Base), clients/okex/ws.py (OkexAuthBase),            *)
(* and of the strategy that reads the cached books:                        *)
(*   strategy/spot_future_arbitrage/okx_strategy.py (SpotFutureArbitrage). *)
(* The specifications that share the module:                               *)
(*   Spec      - supervisor (run/start/handler), watchdog, work dispatcher *)
(*               and consumer workers, with time abstracted away;          *)
(*   FairSpec  - Spec with the fairness of the asyncio event loop;         *)
(*   BookSpec  - the order-book replicas under books frames;               *)
(*   TimedSpec - supervisor and watchdog with an explicit clock (seconds); *)
(*   SetupSpec - supervisor and watchdog with the setup task of start();   *)
(*   AuthSpec  - the authenticated client: start, background loop, setup   *)
(*               with login, handler, watchdog, shutdown;                  *)
(*   FairAuthSpec - AuthSpec with the fairness of the client's own tasks; *)
(*   ReadSpec  - the cached payload and OrderBookManager's price readers;  *)
(*   ReplicaSpec - the registry under books and ticker frames, changing    *)
(*               instrument parameters, the watchdog and reconnects;       *)
(*   StampSpec - dispatch_message and the time of the last frame;          *)
(*   KeySpec   - the topics books are cached under and the keys they are  *)
(*               read from;                                                *)
(*   PublishSpec - books frames, the publish units they queue and the      *)
(*               payloads the workers cache;                               *)
(*   StrategySpec - SpotFutureArbitrage: its loop and its event callbacks. *)
(***************************************************************************)
EXTENDS Integers, Sequences, FiniteSets, TLC

\* ---------------------------------------------------------------- bounds
\* Number of distinct instruments whose books frames arrive.
NumInstruments == 3
\* Publish units handed to task_dispatch in all (books frames handled).
MaxUnits == 4
\* settings.SPIDER_CONSUMER_WORKERS (env default 100), instantiated small.
SPIDER_CONSUMER_WORKERS == 2
\* settings.SPIDER_WEBSOCKET_MESSAGE_QUEUE_MAX_SIZE (env default 10000),
\* instantiated small so that a full queue is reachable.
SPIDER_WEBSOCKET_MESSAGE_QUEUE_MAX_SIZE == 2

Instruments == 1..NumInstruments

\* Price levels carried by one books frame, both sides together.
MaxLevels == 2
\* OkexWSClient.orderbook_max_depth (5 in the source), instantiated small so
\* that a frame can carry more levels than the retained depth.
orderbook_max_depth == 1

\* Order batches of each kind the strategy submits in all.
MaxBatches == 2

\* Seconds of model time the timed specification runs for.
MaxTime == 41

\* The longest time (seconds) a socket close is given to complete.
MaxCloseTime == 1

\* Connections the authenticated client establishes in all.
MaxConnections == 2
Connections == 1..MaxConnections

\* BaseWSClient.TIMEOUT_THRESHOLD, TIMEOUT_KILLER_COOLDOWN, TIMEOUT_KILLER_PERIOD (seconds)
TIMEOUT_THRESHOLD == 5
TIMEOUT_KILLER_COOLDOWN == 25
TIMEOUT_KILLER_PERIOD == 5
\* `await asyncio.sleep(1)` at the end of each iteration of run's loop
RUN_BACKOFF == 1

\* The instIds with a book: "X" has empty ctVal/ctMult (spot), "Y" is a contract.
BookInstruments == {"X", "Y"}
Sides == {"bids", "asks"}
\* The price ladder of each instrument and side, and the raw sizes (lots or
\* contracts) a level can carry.
PriceSet(instId, side) ==
    IF instId = "X" THEN (IF side = "bids" THEN {99, 100} ELSE {101})
                    ELSE (IF side = "bids" THEN {50} ELSE {})
RawSizes == {0, 1, 3}
\* The empty string of an instruments record field.
Empty == 0
\* self.instruments_info[instId]: the ctVal and ctMult fields.
instruments_info ==
    [i \in BookInstruments |->
        IF i = "X" THEN [ctVal |-> Empty, ctMult |-> Empty]
                   ELSE [ctVal |-> 10, ctMult |-> 1]]

\* ------------------------------------------------------------- variables
VARIABLES
    run_pc,                 \* BaseWSClient.run: "create" | "await" | "sleep" | "exited"
    main_task,              \* the task running start(): "none" | "connect" | "recv" | "put" | "returned" | "cancelled"
    pending_put,            \* the unit held by the suspended queue.put, or <<>>
    fresh,                  \* time.time() - last_updated_at <= TIMEOUT_THRESHOLD
    killer_pc,              \* timeout_killer: "period" | "cooldown"
    queue_object_caches,    \* the list of asyncio.Queue objects, each a sequence of units
    worker,                 \* per queue: the unit its consumer_worker is awaiting, or <<>>
    map_instrument_queue,   \* instrument -> index into queue_object_caches, 0 = unbound
    gen_cycle_queue_cache,  \* 0 = None, else the index the cycle iterator yields next
    handed,                 \* per instrument: units handed to task_dispatch so far
    finished,               \* per instrument: numbers of the units whose execution ended, in order
    raised,                 \* the last unit whose exception a worker logged, or <<>>
    orderbooks,             \* NewOrderBookManager.orderbooks: instrument -> [bids, asks]
    message,                \* the books frame received and not yet handled, or NoMessage
    json_orderbook,         \* handle_books' payload for publish_book, NoPayload outside the call
    handled,                \* what the handle_books call did, NotHandled outside the call
    dropped,                \* handler has logged an exception and dropped the frame, at least once
    now,                    \* time.time(), in seconds since the client was constructed
    last_updated_at,        \* self.last_updated_at
    sup_pc,                 \* run, timed: "create" | "await" | "sleep"
    sup_wake,               \* when run's sleep ends (0 while not sleeping)
    conn,                   \* main task, timed: "none" | "connect" | "recv" | "returned" | "cancelled"
    websocket,              \* self.websocket: "none" (no attribute) | "open" | "closing" | "closed"
    wd_pc,                  \* timeout_killer, timed: "period" | "cooldown"
    wd_wake,                \* when timeout_killer's current sleep ends
    connection_id,          \* orderbook_manager._connection_id (ms), -1 = no manager yet
    last_kill_at,           \* when timeout_killer last cancelled and closed, -1 = never
    last_start_at,          \* when run last created a main task, -1 = never
    setup_task,             \* self (the task self.setup_task refers to) and last (the one before): their states
    manager_by,             \* who created self.orderbook_manager: "none" | "start" | "setup" | "last_setup"
    shutdowned,             \* Base.shutdowned
    background_loop,        \* the task Base.background_loop refers to
    base_websocket,         \* Base.websocket: the number of the connection, 0 = not set
    ws_state,               \* per connection: "unused" | "open" | "closing" | "closed"
    ws_handler,             \* per connection: its handler task
    ws_setup,               \* per connection: its setup task
    timeout_killer,         \* the task Base.timeout_killer refers to: "none" | "alive" | "cancelled"
    period_task,            \* the task Base.period_task refers to: "none" | "alive" | "cancelled"
    base_fresh,             \* time.time() - Base.last_updated_at <= Base.TIMEOUT_THRESHOLD
    queue,                  \* OkexAuthBase.queue: the login replies put by handle_login
    login_pending,          \* connections whose login request the exchange has not answered yet
    login_code,             \* per connection: the code of the exchange's reply to its login
    auth_result,            \* per connection: what auth() returned or why it failed
    subscribed,             \* connections on which a subscribe request was sent
    registry,               \* orderbook_manager.orderbooks with timestamp and ticker of each replica
    cached_info,            \* self.instruments_info as setup and instruments pushes change it
    receive_loop,           \* the main task's handler(): "idle" | "running"
    setup_pending,          \* the setup task has been created and has not run yet
    unit_queued,            \* a publish unit waits in a worker queue
    redis_book,             \* the value redis holds under an instrument's BOOK key
    price_read,             \* what the last read of a price returned
    redis_keys,             \* the book topics under which the spider has cached a payload
    lookup,                 \* the last OrderBookManager.get_orderbook: its name, key and outcome
    unit_payloads,          \* the payloads held by the publish units waiting in a worker queue
    redis_cache,            \* instrument -> the payload cached under its book topic
    strategy_pc,            \* SpotFutureArbitrage.start: where its loop stands
    init_event,             \* SpotFutureArbitrage.init_event.is_set()
    opened,                 \* opening order batches submitted (open_position)
    closed,                 \* closing order batches submitted (close_positions)
    background_tasks        \* SpotFutureArbitrage.background_tasks: the tasks created and not yet done

dvars == <<run_pc, main_task, pending_put, fresh, killer_pc, queue_object_caches,
           worker, map_instrument_queue, gen_cycle_queue_cache, handed, finished, raised>>

bvars == <<orderbooks, message, json_orderbook, handled, dropped>>

tvars == <<now, last_updated_at, sup_pc, sup_wake, conn, websocket, wd_pc, wd_wake,
           connection_id, last_kill_at, last_start_at>>

svars == <<setup_task, manager_by>>

avars == <<shutdowned, background_loop, base_websocket, ws_state, ws_handler, ws_setup,
           timeout_killer, period_task, base_fresh, queue, login_pending, login_code,
           auth_result, subscribed>>

rvars == <<registry, cached_info, receive_loop, setup_pending, unit_queued>>

cvars == <<redis_book, price_read>>

kvars == <<redis_keys, lookup>>

pvars == <<unit_payloads, redis_cache>>

gvars == <<strategy_pc, init_event, opened, closed, background_tasks>>

vars == <<dvars, bvars, tvars, svars, avars, rvars, cvars, kvars, pvars, gvars>>

\* A publish unit: the coroutine fut_publish_book(...) of the n-th books frame of instrument i.
Unit(i, n) == <<i, n>>

NoUnit == <<>>

RECURSIVE SumTo(_, _)
SumTo(f, n) == IF n = 0 THEN 0 ELSE f[n] + SumTo(f, n - 1)

\* Units handed to task_dispatch so far, over all instruments.
TotalHanded == SumTo(handed, NumInstruments)

\* ------------------------------------------------------------------ Init
DInit ==
    /\ run_pc = "create"
    /\ main_task = "none"
    /\ pending_put = NoUnit
    /\ fresh = TRUE
    /\ killer_pc = "period"
    /\ queue_object_caches = <<>>
    /\ worker = <<>>
    /\ map_instrument_queue = [i \in Instruments |-> 0]
    /\ gen_cycle_queue_cache = 0
    /\ handed = [i \in Instruments |-> 0]
    /\ finished = [i \in Instruments |-> <<>>]
    /\ raised = NoUnit

\* NewOrderBookManager.__init__: no replica yet.
NoLevels == [p \in {} |-> 0]

NoMessage == [action |-> "none", instId |-> "", bids |-> <<>>, asks |-> <<>>]

NoPayload == [instrument_name |-> "", bids |-> <<>>, asks |-> <<>>]

\* action: "none" | "snapshot" | "update" | "raised" | "undecoded" | "stopped"; existed: the instrument
\* had a replica before; deleted: executions of `del orderbook[side][price]`;
\* skipped: zero amounts whose price was not in the side.
NotHandled == [action |-> "none", instId |-> "", existed |-> FALSE, deleted |-> 0, skipped |-> 0]

BInit ==
    /\ orderbooks = [i \in {} |-> 0]
    /\ message = NoMessage
    /\ json_orderbook = NoPayload
    /\ handled = NotHandled
    /\ dropped = FALSE

\* self.orderbook_manager = None in BaseWSClient.__init__: no token yet.
NoConnectionId == -1

\* BaseWSClient.__init__ (last_updated_at = time.time()) and the first lines of
\* run: timeout_killer has been created and is in its first sleep.
TInit ==
    /\ now = 0
    /\ last_updated_at = 0
    /\ sup_pc = "create"
    /\ sup_wake = 0
    /\ conn = "none"
    /\ websocket = "none"
    /\ wd_pc = "period"
    /\ wd_wake = TIMEOUT_KILLER_PERIOD
    /\ connection_id = NoConnectionId
    /\ last_kill_at = -1
    /\ last_start_at = -1

\* BaseWSClient.__init__: self.setup_task = None, self.orderbook_manager = None
SInit ==
    /\ setup_task = [self |-> "none", last |-> "none"]
    /\ manager_by = "none"

\* Base.__init__ and OkexAuthBase.__init__: no task, no socket, an empty queue.
AInit ==
    /\ shutdowned = FALSE
    /\ background_loop = "none"
    /\ base_websocket = 0
    /\ ws_state = [c \in Connections |-> "unused"]
    /\ ws_handler = [c \in Connections |-> "none"]
    /\ ws_setup = [c \in Connections |-> "none"]
    /\ timeout_killer = "none"
    /\ period_task = "none"
    /\ base_fresh = TRUE
    /\ queue = <<>>
    /\ login_pending = {}
    /\ login_code = [c \in Connections |-> "none"]
    /\ auth_result = [c \in Connections |-> "none"]
    /\ subscribed = {}

\* BaseWSClient.__init__ and OkexWSClient.__init__: no manager, no
\* instruments, no task.
RInit ==
    /\ registry = [i \in {} |-> 0]
    /\ cached_info = [i \in {} |-> 0]
    /\ receive_loop = "idle"
    /\ setup_pending = FALSE
    /\ unit_queued = FALSE

NotRead == [op |-> "none", kind |-> "none", price |-> 0]

\* Nothing published yet, nothing read yet.
CInit ==
    /\ redis_book = NoPayload
    /\ price_read = NotRead

NoLookup == [name |-> <<>>, key |-> <<>>, hit |-> FALSE]

KInit ==
    /\ redis_keys = {}
    /\ lookup = NoLookup

PInit ==
    /\ unit_payloads = <<>>
    /\ redis_cache = [i \in {} |-> 0]

GInit ==
    /\ strategy_pc = "init_account"
    /\ init_event = FALSE
    /\ opened = 0
    /\ closed = 0
    /\ background_tasks = {}

Init == DInit /\ BInit /\ TInit /\ SInit /\ AInit /\ RInit /\ CInit /\ KInit /\ PInit /\ GInit

\* ------------------------------------------------------ BaseWSClient.run
\* `except BaseException` around `await client.main_task`: what the run loop catches.
RunCaughtOnlyException(outcome) == outcome = "Exception"

RunCaught(outcome) == outcome \in {"Exception", "CancelledError"}

\* client.main_task = loop.create_task(client.start()); await client.main_task
RunCreate ==
    /\ run_pc = "create"
    /\ run_pc' = "await"
    /\ main_task' = "connect"
    /\ UNCHANGED <<pending_put, fresh, killer_pc, queue_object_caches, worker,
                   map_instrument_queue, gen_cycle_queue_cache, handed, finished, raised, bvars, tvars, svars, avars, rvars, cvars, kvars, pvars, gvars>>

\* `await client.main_task` ends: start() returned (it catches its own
\* Exceptions), or the task was cancelled and CancelledError is raised in run.
RunAwaitDone ==
    /\ run_pc = "await"
    /\ main_task \in {"returned", "cancelled"}
    /\ run_pc' = IF main_task = "returned" \/ RunCaught("CancelledError")
                 THEN "sleep" ELSE "exited"
    /\ UNCHANGED <<main_task, pending_put, fresh, killer_pc, queue_object_caches, worker,
                   map_instrument_queue, gen_cycle_queue_cache, handed, finished, raised, bvars, tvars, svars, avars, rvars, cvars, kvars, pvars, gvars>>

\* await asyncio.sleep(1), then the next iteration of `while True`
RunBackoff ==
    /\ run_pc = "sleep"
    /\ run_pc' = "create"
    /\ UNCHANGED <<main_task, pending_put, fresh, killer_pc, queue_object_caches, worker,
                   map_instrument_queue, gen_cycle_queue_cache, handed, finished, raised, bvars, tvars, svars, avars, rvars, cvars, kvars, pvars, gvars>>

\* ---------------------------------------------------- BaseWSClient.start
\* create_ws_connection succeeds (handler() starts reading) or raises (the
\* Exception is caught and logged inside start(), which then returns).
Connect ==
    /\ main_task = "connect"
    /\ main_task' \in {"recv", "returned"}
    /\ UNCHANGED <<run_pc, pending_put, fresh, killer_pc, queue_object_caches, worker,
                   map_instrument_queue, gen_cycle_queue_cache, handed, finished, raised, bvars, tvars, svars, avars, rvars, cvars, kvars, pvars, gvars>>

\* `async for message in self.websocket` ends: normal closure, or a receive
\* error that start() catches.
RecvClosed ==
    /\ main_task = "recv"
    /\ main_task' = "returned"
    /\ UNCHANGED <<run_pc, pending_put, fresh, killer_pc, queue_object_caches, worker,
                   map_instrument_queue, gen_cycle_queue_cache, handed, finished, raised, bvars, tvars, svars, avars, rvars, cvars, kvars, pvars, gvars>>

\* A frame whose handler hands nothing to the dispatcher; dispatch_message
\* returns and sets last_updated_at.
RecvOther ==
    /\ main_task = "recv"
    /\ ~fresh
    /\ fresh' = TRUE
    /\ UNCHANGED <<run_pc, main_task, pending_put, killer_pc, queue_object_caches, worker,
                   map_instrument_queue, gen_cycle_queue_cache, handed, finished, raised, bvars, tvars, svars, avars, rvars, cvars, kvars, pvars, gvars>>

\* -------------------------------------------- BaseWSClient.task_dispatch
\* The mutated queue: asyncio.Queue() without maxsize is never full.
FullNever(q) == FALSE

\* asyncio.Queue(maxsize=Q).full()
Full(q) == Len(queue_object_caches[q]) >= SPIDER_WEBSOCKET_MESSAGE_QUEUE_MAX_SIZE

\* The mutated binding rule: an already bound instrument is bound again.
IsBoundNever(i) == FALSE

\* `instrument_name in self.map_instrument_queue`
IsBound(i) == map_instrument_queue[i] # 0

\* The mutated pool check: one queue too many.
PoolHasRoomOffByOne == Len(queue_object_caches) <= SPIDER_CONSUMER_WORKERS

\* `len(self.queue_object_caches) < settings.SPIDER_CONSUMER_WORKERS`
PoolHasRoom == Len(queue_object_caches) < SPIDER_CONSUMER_WORKERS

\* The mutated iterator: it always yields the queue created last.
CycleYieldLast == Len(queue_object_caches)

\* next(cycle(self.queue_object_caches)): the index yielded now
CycleYield == IF gen_cycle_queue_cache = 0 THEN 1 ELSE gen_cycle_queue_cache

\* The queue index task_dispatch chooses for instrument i.
TargetQueue(i) ==
    IF IsBound(i) THEN map_instrument_queue[i]
    ELSE IF PoolHasRoom THEN Len(queue_object_caches) + 1
    ELSE CycleYield

\* The mutated queue discipline: LIFO instead of FIFO.
EnqueueAtFront(q, u) == <<u>> \o q

\* queue.put(fut) on a queue with room: FIFO append
Enqueue(q, u) == Append(q, u)

\* handle_books ... publish_book -> task_dispatch(instrument_name, fut) for the
\* next books frame of instrument i, up to and including `await queue.put(fut)`.
\* Instrument names are labels the dispatcher only compares for equality: the
\* instruments are numbered in the order of their first frame.
RecvBook(i) ==
    /\ main_task = "recv"
    /\ TotalHanded < MaxUnits
    /\ IF i = 1 THEN TRUE ELSE handed[i - 1] > 0
    /\ LET u == Unit(i, handed[i] + 1)
           q == TargetQueue(i)
           newq == ~IsBound(i) /\ PoolHasRoom
           queues == IF newq THEN Append(queue_object_caches, <<>>) ELSE queue_object_caches
           full == Len(queues[q]) >= SPIDER_WEBSOCKET_MESSAGE_QUEUE_MAX_SIZE
       IN /\ handed' = [handed EXCEPT ![i] = @ + 1]
          /\ map_instrument_queue' = [map_instrument_queue EXCEPT ![i] = q]
          /\ worker' = IF newq THEN Append(worker, NoUnit) ELSE worker
          /\ gen_cycle_queue_cache' =
                IF IsBound(i) \/ PoolHasRoom THEN gen_cycle_queue_cache
                ELSE (CycleYield % Len(queue_object_caches)) + 1
          /\ IF full
             THEN /\ queue_object_caches' = queues
                  /\ pending_put' = u
                  /\ main_task' = "put"
                  /\ fresh' = fresh
             ELSE /\ queue_object_caches' = [queues EXCEPT ![q] = Enqueue(@, u)]
                  /\ pending_put' = NoUnit
                  /\ main_task' = "recv"
                  /\ fresh' = TRUE
    /\ UNCHANGED <<run_pc, killer_pc, finished, raised, bvars, tvars, svars, avars, rvars, cvars, kvars, pvars, gvars>>

\* The suspended `await queue.put(fut)` resumes once the queue has room.
PutResume ==
    /\ main_task = "put"
    /\ LET q == map_instrument_queue[pending_put[1]]
       IN /\ ~Full(q)
          /\ queue_object_caches' = [queue_object_caches EXCEPT ![q] = Enqueue(@, pending_put)]
    /\ pending_put' = NoUnit
    /\ main_task' = "recv"
    /\ fresh' = TRUE
    /\ UNCHANGED <<run_pc, killer_pc, worker, map_instrument_queue,
                   gen_cycle_queue_cache, handed, finished, raised, bvars, tvars, svars, avars, rvars, cvars, kvars, pvars, gvars>>

\* ------------------------------------------ BaseWSClient.consumer_worker
\* fut = await queue.get()
WorkerGet(q) ==
    /\ worker[q] = NoUnit
    /\ queue_object_caches[q] # <<>>
    /\ worker' = [worker EXCEPT ![q] = Head(queue_object_caches[q])]
    /\ queue_object_caches' = [queue_object_caches EXCEPT ![q] = Tail(@)]
    /\ UNCHANGED <<run_pc, main_task, pending_put, fresh, killer_pc,
                   map_instrument_queue, gen_cycle_queue_cache, handed, finished, raised, bvars, tvars, svars, avars, rvars, cvars, kvars, pvars, gvars>>

\* The worker loop's state after its task died of an exception.
DeadWorker == <<0>>

\* The mutated worker: no `except Exception` around `await fut`.
WorkerCatchesNothing(ok) == ok

\* try: await fut / except Exception: logged. The loop survives the unit.
WorkerCatches(ok) == TRUE

\* `await fut` ends, normally (ok) or with an Exception, which is only logged;
\* finally: queue.task_done(); the loop goes back to queue.get() either way.
WorkerDone(q, ok) ==
    /\ worker[q] \notin {NoUnit, DeadWorker}
    /\ finished' = [finished EXCEPT ![worker[q][1]] = Append(@, worker[q][2])]
    /\ raised' = IF ok THEN raised ELSE worker[q]
    /\ worker' = [worker EXCEPT ![q] = IF WorkerCatches(ok) THEN NoUnit ELSE DeadWorker]
    /\ UNCHANGED <<run_pc, main_task, pending_put, fresh, killer_pc, queue_object_caches,
                   map_instrument_queue, gen_cycle_queue_cache, handed, bvars, tvars, svars, avars, rvars, cvars, kvars, pvars, gvars>>

\* ------------------------------------------ BaseWSClient.timeout_killer
\* Time passes without a frame being processed until
\* time.time() - self.last_updated_at > self.TIMEOUT_THRESHOLD.
TimePasses ==
    /\ fresh
    /\ fresh' = FALSE
    /\ UNCHANGED <<run_pc, main_task, pending_put, killer_pc, queue_object_caches, worker,
                   map_instrument_queue, gen_cycle_queue_cache, handed, finished, raised, bvars, tvars, svars, avars, rvars, cvars, kvars, pvars, gvars>>

\* The check after `await asyncio.sleep(TIMEOUT_KILLER_PERIOD)` finds the
\* client stale: self.main_task.cancel() (CancelledError is thrown into the
\* task at its current await, a suspended queue.put included), then
\* self.websocket.close(), then the cool-down sleep.
KillerKill ==
    /\ killer_pc = "period"
    /\ main_task # "none"
    /\ ~fresh
    /\ killer_pc' = "cooldown"
    /\ main_task' = IF main_task \in {"connect", "recv", "put"} THEN "cancelled" ELSE main_task
    /\ pending_put' = NoUnit
    /\ UNCHANGED <<run_pc, fresh, queue_object_caches, worker,
                   map_instrument_queue, gen_cycle_queue_cache, handed, finished, raised, bvars, tvars, svars, avars, rvars, cvars, kvars, pvars, gvars>>

\* await asyncio.sleep(self.TIMEOUT_KILLER_COOLDOWN) ends
KillerCooldownEnd ==
    /\ killer_pc = "cooldown"
    /\ killer_pc' = "period"
    /\ UNCHANGED <<run_pc, main_task, pending_put, fresh, queue_object_caches, worker,
                   map_instrument_queue, gen_cycle_queue_cache, handed, finished, raised, bvars, tvars, svars, avars, rvars, cvars, kvars, pvars, gvars>>

Workers == \E q \in 1..Len(queue_object_caches) :
              WorkerGet(q) \/ WorkerDone(q, TRUE) \/ WorkerDone(q, FALSE)

RunLoop == RunCreate \/ RunAwaitDone \/ RunBackoff

Next ==
    \/ RunCreate
    \/ RunAwaitDone
    \/ RunBackoff
    \/ Connect
    \/ RecvClosed
    \/ RecvOther
    \/ \E i \in Instruments : RecvBook(i)
    \/ PutResume
    \/ \E q \in 1..Len(queue_object_caches) : WorkerGet(q)
    \/ \E q \in 1..Len(queue_object_caches) : \E ok \in BOOLEAN : WorkerDone(q, ok)
    \/ TimePasses
    \/ KillerKill
    \/ KillerCooldownEnd

Spec == Init /\ [][Next]_vars

\* ----------------------------------------- OkexWSClient.handle_books
\* float(x or 1) of an instruments field
FieldOr1(x) == IF x = Empty THEN 1 ELSE x

\* contract_size = float(info["ctMult"] or 1) * float(info["ctVal"] or 1)
contract_size(instId) ==
    FieldOr1(instruments_info[instId].ctMult) * FieldOr1(instruments_info[instId].ctVal)

\* levels[: self.orderbook_max_depth]
Top(levels) == SubSeq(levels, 1, IF Len(levels) < orderbook_max_depth
                                 THEN Len(levels) ELSE orderbook_max_depth)

\* {float(price): float(amount) * contract_size for price, amount, *_ in levels}:
\* a later level of the same price overwrites an earlier one; nothing is filtered.
RECURSIVE PureDict(_, _)
PureDict(levels, size) ==
    IF levels = <<>> THEN NoLevels
    ELSE LET d == PureDict(SubSeq(levels, 1, Len(levels) - 1), size)
             l == levels[Len(levels)]
         IN [p \in DOMAIN d \cup {l[1]} |-> IF p = l[1] THEN l[2] * size ELSE d[p]]

\* The mutated update of one level: a zero amount is stored like any other.
SetLevelKeepZero(side, price, amount) ==
    [p \in DOMAIN side \cup {price} |-> IF p = price THEN amount ELSE side[p]]

\* if amount == 0: (if price in orderbook[side]: del orderbook[side][price])
\* else: orderbook[side][price] = amount
SetLevel(side, price, amount) ==
    IF amount = 0
    THEN [p \in DOMAIN side \ {price} |-> side[p]]
    ELSE [p \in DOMAIN side \cup {price} |-> IF p = price THEN amount ELSE side[p]]

\* The mutated update loop: amounts are applied unscaled.
RECURSIVE ApplyLevelsUnscaled(_, _, _)
ApplyLevelsUnscaled(side, levels, size) ==
    IF levels = <<>> THEN side
    ELSE ApplyLevelsUnscaled(SetLevel(side, levels[1][1], levels[1][2]), Tail(levels), size)

\* The mutated update loop: it stops after the first level.
ApplyLevelsFirstOnly(side, levels, size) ==
    IF levels = <<>> THEN side
    ELSE SetLevel(side, levels[1][1], levels[1][2] * size)

\* for price, amount, *_ in update[side]: ... in wire order
RECURSIVE ApplyLevels(_, _, _)
ApplyLevels(side, levels, size) ==
    IF levels = <<>> THEN side
    ELSE ApplyLevels(SetLevel(side, levels[1][1], levels[1][2] * size), Tail(levels), size)

\* The mutated snapshot: the new levels are merged into the previous replica.
SnapshotMerged(books, instId, bids, asks) ==
    [i \in DOMAIN books \cup {instId} |->
        IF i # instId THEN books[i]
        ELSE IF instId \in DOMAIN books
             THEN [bids |-> [p \in DOMAIN books[i].bids \cup DOMAIN bids |->
                               IF p \in DOMAIN bids THEN bids[p] ELSE books[i].bids[p]],
                   asks |-> [p \in DOMAIN books[i].asks \cup DOMAIN asks |->
                               IF p \in DOMAIN asks THEN asks[p] ELSE books[i].asks[p]]]
             ELSE [bids |-> bids, asks |-> asks]]

\* NewOrderBookManager.snapshot: self.orderbooks[instrument_name] = FastOrderBook(...)
Snapshot(books, instId, bids, asks) ==
    [i \in DOMAIN books \cup {instId} |->
        IF i = instId THEN [bids |-> bids, asks |-> asks] ELSE books[i]]

\* -------------------------------------------- FastOrderBook.to_json
Max(S) == CHOOSE x \in S : \A y \in S : y <= x

Min(S) == CHOOSE x \in S : \A y \in S : x <= y

\* side.to_list(): the levels in the side's order (bids descending, asks
\* ascending), at most max_depth of them.
RECURSIVE ToList(_, _, _)
ToList(side, name, depth) ==
    IF DOMAIN side = {} \/ depth = 0 THEN <<>>
    ELSE LET p == IF name = "bids" THEN Max(DOMAIN side) ELSE Min(DOMAIN side)
         IN <<<<p, side[p]>>>> \o
            ToList([x \in DOMAIN side \ {p} |-> side[x]], name, depth - 1)

\* orderbook.to_json() with json_orderbook["instrument_name"] = instrument_name
ToJson(books, instId) ==
    [instrument_name |-> instId,
     bids |-> ToList(books[instId].bids, "bids", orderbook_max_depth),
     asks |-> ToList(books[instId].asks, "asks", orderbook_max_depth)]

\* ---------------------------------------------------------- books frames
LevelSeqs(instId, side, n) ==
    UNION {[1..k -> PriceSet(instId, side) \X RawSizes] : k \in 0..n}

\* The books frames the exchange may push: an action, an instId and one data
\* item with its two level lists.
FramesOf(i) ==
    {m \in [action : {"snapshot", "update"}, instId : {i},
            bids : LevelSeqs(i, "bids", MaxLevels), asks : LevelSeqs(i, "asks", MaxLevels)] :
        Len(m.bids) + Len(m.asks) <= MaxLevels}

\* A frame json.loads cannot decode.
Malformed == [action |-> "malformed", instId |-> "", bids |-> <<>>, asks |-> <<>>]

Frames == UNION {FramesOf(i) : i \in BookInstruments} \cup {Malformed}

\* handler: `async for message in self.websocket` yields a books frame.
RecvFrame(m) ==
    /\ message = NoMessage
    /\ handled = NotHandled
    /\ message' = m
    /\ UNCHANGED <<orderbooks, json_orderbook, handled, dropped, dvars, tvars, svars, avars, rvars, cvars, kvars, pvars, gvars>>

\* Executions of `del orderbook[side][price]` while the levels are applied.
RECURSIVE CountDeleted(_, _, _)
CountDeleted(side, levels, size) ==
    IF levels = <<>> THEN 0
    ELSE (IF levels[1][2] * size = 0 /\ levels[1][1] \in DOMAIN side THEN 1 ELSE 0)
         + CountDeleted(SetLevel(side, levels[1][1], levels[1][2] * size), Tail(levels), size)

\* Zero amounts whose price is not in the side (`if price in orderbook[side]` is false).
RECURSIVE CountSkipped(_, _, _)
CountSkipped(side, levels, size) ==
    IF levels = <<>> THEN 0
    ELSE (IF levels[1][2] * size = 0 /\ levels[1][1] \notin DOMAIN side THEN 1 ELSE 0)
         + CountSkipped(SetLevel(side, levels[1][1], levels[1][2] * size), Tail(levels), size)

\* dispatch_message(message): json.loads, then handle_books(message) up to the
\* hand-over to publish_book. json.loads raises on a malformed frame, and an
\* update for an instrument without a replica raises (orderbook is None).
HandleBooks ==
    /\ message # NoMessage
    /\ message' = NoMessage
    /\ LET m == message
           size == contract_size(m.instId)
           existed == m.instId \in DOMAIN orderbooks
       IN IF m.action = "malformed"
          THEN /\ handled' = [action |-> "undecoded", instId |-> "",
                              existed |-> FALSE, deleted |-> 0, skipped |-> 0]
               /\ UNCHANGED <<orderbooks, json_orderbook>>
          ELSE IF m.action = "snapshot"
          THEN /\ orderbooks' = Snapshot(orderbooks, m.instId,
                                         PureDict(Top(m.bids), size),
                                         PureDict(Top(m.asks), size))
               /\ json_orderbook' = ToJson(orderbooks', m.instId)
               /\ handled' = [action |-> "snapshot", instId |-> m.instId,
                              existed |-> existed, deleted |-> 0, skipped |-> 0]
          ELSE IF ~existed
          THEN /\ handled' = [action |-> "raised", instId |-> m.instId,
                              existed |-> FALSE, deleted |-> 0, skipped |-> 0]
               /\ UNCHANGED <<orderbooks, json_orderbook>>
          ELSE /\ orderbooks' =
                    [orderbooks EXCEPT ![m.instId] =
                        [bids |-> ApplyLevels(@.bids, m.bids, size),
                         asks |-> ApplyLevels(@.asks, m.asks, size)]]
               /\ json_orderbook' = ToJson(orderbooks', m.instId)
               /\ handled' =
                    [action |-> "update", instId |-> m.instId, existed |-> TRUE,
                     deleted |-> CountDeleted(orderbooks[m.instId].bids, m.bids, size)
                                 + CountDeleted(orderbooks[m.instId].asks, m.asks, size),
                     skipped |-> CountSkipped(orderbooks[m.instId].bids, m.bids, size)
                                 + CountSkipped(orderbooks[m.instId].asks, m.asks, size)]
    /\ UNCHANGED <<dropped, dvars, tvars, svars, avars, rvars, cvars, kvars, pvars, gvars>>

\* The receive loop after an exception left handler(): start() logs it and
\* returns, which closes the connection.
Stopped == [action |-> "stopped", instId |-> "", existed |-> FALSE, deleted |-> 0, skipped |-> 0]

\* The mutated handler: no try/except around dispatch_message.
HandlerCatchesNothing(action) == action \notin {"undecoded", "raised"}

\* handler: try: await self.dispatch_message(message) / except Exception: logged.
HandlerCatches(action) == TRUE

\* dispatch_message returns to handler: after `await self.publish_book(topic,
\* json_orderbook)` handed the payload over, or with an exception, which
\* handler logs before it takes the next frame.
DispatchReturn ==
    /\ message = NoMessage
    /\ handled \notin {NotHandled, Stopped}
    /\ handled' = IF HandlerCatches(handled.action) THEN NotHandled ELSE Stopped
    /\ dropped' = (dropped \/ handled.action \in {"undecoded", "raised"})
    /\ json_orderbook' = NoPayload
    /\ UNCHANGED <<orderbooks, message, dvars, tvars, svars, avars, rvars, cvars, kvars, pvars, gvars>>

BNext ==
    \/ \E m \in Frames : RecvFrame(m)
    \/ HandleBooks
    \/ DispatchReturn

BookSpec == Init /\ [][BNext]_vars

\* ------------------------------------- supervisor and watchdog with a clock
\* The mutated staleness test: the comparison is inverted.
IsStaleInverted(timeout) == timeout < TIMEOUT_THRESHOLD

\* `timeout > self.TIMEOUT_THRESHOLD`
IsStale(timeout) == timeout > TIMEOUT_THRESHOLD

\* int(time.time() * 1000) in NewOrderBookManager.__init__
NewConnectionId == now * 1000

\* run: client.main_task = loop.create_task(client.start())
TRunCreate ==
    /\ sup_pc = "create"
    /\ sup_pc' = "await"
    /\ conn' = "connect"
    /\ last_start_at' = now
    /\ UNCHANGED <<now, last_updated_at, sup_wake, websocket, wd_pc, wd_wake,
                   connection_id, last_kill_at, dvars, bvars, svars, avars, rvars, cvars, kvars, pvars, gvars>>

\* start: the connection is established (a NewOrderBookManager is created and
\* handler starts) or create_ws_connection raises and start returns.
TConnect(ok) ==
    /\ conn = "connect"
    /\ IF ok
       THEN /\ conn' = "recv"
            /\ websocket' = "open"
            /\ connection_id' = NewConnectionId
       ELSE /\ conn' = "returned"
            /\ UNCHANGED <<websocket, connection_id>>
    /\ UNCHANGED <<now, last_updated_at, sup_pc, sup_wake, wd_pc, wd_wake,
                   last_kill_at, last_start_at, dvars, bvars, svars, avars, rvars, cvars, kvars, pvars, gvars>>

\* dispatch_message handled a frame: self.last_updated_at = time.time()
TFrame ==
    /\ conn = "recv"
    /\ last_updated_at # now
    /\ last_updated_at' = now
    /\ UNCHANGED <<now, sup_pc, sup_wake, conn, websocket, wd_pc, wd_wake,
                   connection_id, last_kill_at, last_start_at, dvars, bvars, svars, avars, rvars, cvars, kvars, pvars, gvars>>

\* The stream ends or a receive error is caught in start; the `async with`
\* closes the socket.
TClosed ==
    /\ conn = "recv"
    /\ conn' = "returned"
    /\ websocket' = "closed"
    /\ UNCHANGED <<now, last_updated_at, sup_pc, sup_wake, wd_pc, wd_wake,
                   connection_id, last_kill_at, last_start_at, dvars, bvars, svars, avars, rvars, cvars, kvars, pvars, gvars>>

\* run: `await client.main_task` ends (BaseException is caught); the backoff sleep starts.
TRunAwaitDone ==
    /\ sup_pc = "await"
    /\ conn \in {"returned", "cancelled"}
    /\ sup_pc' = "sleep"
    /\ sup_wake' = now + RUN_BACKOFF
    /\ UNCHANGED <<now, last_updated_at, conn, websocket, wd_pc, wd_wake,
                   connection_id, last_kill_at, last_start_at, dvars, bvars, svars, avars, rvars, cvars, kvars, pvars, gvars>>

\* run: the backoff sleep ends.
TRunBackoff ==
    /\ sup_pc = "sleep"
    /\ now = sup_wake
    /\ sup_pc' = "create"
    /\ sup_wake' = 0
    /\ UNCHANGED <<now, last_updated_at, conn, websocket, wd_pc, wd_wake,
                   connection_id, last_kill_at, last_start_at, dvars, bvars, svars, avars, rvars, cvars, kvars, pvars, gvars>>

\* timeout_killer wakes from sleep(TIMEOUT_KILLER_PERIOD): if the client is
\* stale it cancels the main task and awaits `self.websocket.close()` (if
\* there is a socket); otherwise it sleeps another period. A main task
\* cancelled inside `async with` awaits the same close in its exit; a socket
\* that is open takes d seconds to close, any other returns at once. While
\* no connection was ever established, OkexWSClient.__getattr__ answers
\* `self.websocket` with the bound method handle_unknown: hasattr is true,
\* `.close` raises AttributeError, the except clause logs it and the
\* cool-down sleep is skipped.
TKillerCheck ==
    /\ wd_pc = "period"
    /\ now = wd_wake
    /\ IF IsStale(now - last_updated_at)
       THEN /\ last_kill_at' = now
            /\ IF websocket = "open"
               THEN /\ wd_pc' = "closing"
                    /\ \E d \in 0..MaxCloseTime : wd_wake' = now + d
                    /\ websocket' = "closing"
                    /\ conn' = IF conn = "recv" THEN "closing" ELSE conn
               ELSE IF websocket = "none"
               THEN /\ wd_pc' = "period"
                    /\ wd_wake' = now + TIMEOUT_KILLER_PERIOD
                    /\ conn' = IF conn = "connect" THEN "cancelled" ELSE conn
                    /\ UNCHANGED websocket
               ELSE /\ wd_pc' = "closing"
                    /\ wd_wake' = now
                    /\ conn' = IF conn = "connect" THEN "cancelled" ELSE conn
                    /\ UNCHANGED websocket
       ELSE /\ wd_wake' = now + TIMEOUT_KILLER_PERIOD
            /\ UNCHANGED <<conn, websocket, last_kill_at, wd_pc>>
    /\ UNCHANGED <<now, last_updated_at, sup_pc, sup_wake, connection_id,
                   last_start_at, dvars, bvars, svars, avars, rvars, cvars, kvars, pvars, gvars>>

\* timeout_killer: `await self.websocket.close()` returns (and with it the exit
\* of the cancelled main task's `async with`); the cool-down sleep starts.
TKillerClosed ==
    /\ wd_pc = "closing"
    /\ now = wd_wake
    /\ wd_pc' = "cooldown"
    /\ wd_wake' = now + TIMEOUT_KILLER_COOLDOWN
    /\ websocket' = IF websocket = "closing" THEN "closed" ELSE websocket
    /\ conn' = IF conn = "closing" THEN "cancelled" ELSE conn
    /\ UNCHANGED <<now, last_updated_at, sup_pc, sup_wake, connection_id,
                   last_kill_at, last_start_at, dvars, bvars, svars, avars, rvars, cvars, kvars, pvars, gvars>>

\* timeout_killer: the cool-down sleep ends; the loop sleeps a period again.
TKillerCooldownEnd ==
    /\ wd_pc = "cooldown"
    /\ now = wd_wake
    /\ wd_pc' = "period"
    /\ wd_wake' = now + TIMEOUT_KILLER_PERIOD
    /\ UNCHANGED <<now, last_updated_at, sup_pc, sup_wake, conn, websocket,
                   connection_id, last_kill_at, last_start_at, dvars, bvars, svars, avars, rvars, cvars, kvars, pvars, gvars>>

\* A task of the event loop is ready to run now (an elapsed sleep, a finished
\* await): the loop runs it before time moves on.
Urgent ==
    \/ sup_pc = "create"
    \/ sup_pc = "await" /\ conn \in {"returned", "cancelled"}
    \/ sup_pc = "sleep" /\ now = sup_wake
    \/ now = wd_wake

\* One second passes.
Tick ==
    /\ ~Urgent
    /\ now < MaxTime
    /\ now' = now + 1
    /\ UNCHANGED <<last_updated_at, sup_pc, sup_wake, conn, websocket, wd_pc, wd_wake,
                   connection_id, last_kill_at, last_start_at, dvars, bvars, svars, avars, rvars, cvars, kvars, pvars, gvars>>

TNext ==
    \/ TRunCreate
    \/ \E ok \in BOOLEAN : TConnect(ok)
    \/ TFrame
    \/ TClosed
    \/ TRunAwaitDone
    \/ TRunBackoff
    \/ TKillerCheck
    \/ TKillerClosed
    \/ TKillerCooldownEnd
    \/ Tick

TimedSpec == Init /\ [][TNext]_vars

\* The event loop runs every task that is ready: the run loop, the main task's
\* resumption of a put, and the consumer workers.
FairSpec ==
    /\ Spec
    /\ WF_vars(RunLoop)
    /\ WF_vars(PutResume)
    /\ WF_vars(Workers)

\* ------------------------- BaseWSClient.start and OkexWSClient.setup
\* A task that has been created and has neither finished nor been cancelled.
Pending(task) == task \in {"created", "fetching", "subscribing"}

\* The mutated start: the last setup task is left alone.
CancelLastNever(task) == task

\* if self.setup_task: self.setup_task.cancel()
CancelLast(task) == IF Pending(task) THEN "cancelled" ELSE task

\* start with the setup task: create_ws_connection raises (start logs it and
\* returns), or the connection is established: a new NewOrderBookManager, the
\* last setup task cancelled, a new setup task created, handler() entered.
StartConnect(ok) ==
    /\ main_task = "connect"
    /\ IF ok
       THEN /\ main_task' = "recv"
            /\ manager_by' = "start"
            /\ setup_task' = [self |-> "created", last |-> CancelLast(setup_task.self)]
       ELSE /\ main_task' = "returned"
            /\ UNCHANGED svars
    /\ UNCHANGED <<run_pc, pending_put, fresh, killer_pc, queue_object_caches, worker,
                   map_instrument_queue, gen_cycle_queue_cache, handed, finished, raised,
                   bvars, tvars, avars, rvars, cvars, kvars, pvars, gvars>>

\* setup runs up to its first await: a new NewOrderBookManager with the depth,
\* self.channels and self.instruments_info emptied, the instruments requested.
SetupBegin(t) ==
    /\ setup_task[t] = "created"
    /\ setup_task' = [setup_task EXCEPT ![t] = "fetching"]
    /\ manager_by' = IF t = "self" THEN "setup" ELSE "last_setup"
    /\ UNCHANGED <<dvars, bvars, tvars, avars, rvars, cvars, kvars, pvars, gvars>>

\* get_instruments_to_subscribe: the HTTP replies arrive and parse_instruments
\* fills self.instruments_info, or the request raises and the task ends.
SetupFetched(t, ok) ==
    /\ setup_task[t] = "fetching"
    /\ setup_task' = [setup_task EXCEPT ![t] = IF ok THEN "subscribing" ELSE "failed"]
    /\ UNCHANGED <<manager_by, dvars, bvars, tvars, avars, rvars, cvars, kvars, pvars, gvars>>

\* subscribe_instruments: send("subscribe", ...) on self.websocket, which
\* raises ConnectionClosed when there is no open socket.
SetupSubscribe(t) ==
    /\ setup_task[t] = "subscribing"
    /\ setup_task' = [setup_task EXCEPT ![t] =
                         IF main_task \in {"recv", "put"} THEN "done" ELSE "failed"]
    /\ UNCHANGED <<manager_by, dvars, bvars, tvars, avars, rvars, cvars, kvars, pvars, gvars>>

SetupNext ==
    \/ RunCreate
    \/ RunAwaitDone
    \/ RunBackoff
    \/ \E ok \in BOOLEAN : StartConnect(ok)
    \/ RecvClosed
    \/ RecvOther
    \/ TimePasses
    \/ KillerKill
    \/ KillerCooldownEnd
    \/ \E t \in {"self", "last"} : SetupBegin(t)
    \/ \E t \in {"self", "last"} : \E ok \in BOOLEAN : SetupFetched(t, ok)
    \/ \E t \in {"self", "last"} : SetupSubscribe(t)

SetupSpec == Init /\ [][SetupNext]_vars

\* ------------------------------------ clients.base.Base and OkexAuthBase
\* The connection a successful connect gets: the first one not yet used.
NextConnection == CHOOSE c \in Connections :
                      /\ ws_state[c] = "unused"
                      /\ \A d \in Connections : ws_state[d] = "unused" => c <= d

\* if self.timeout_killer: self.timeout_killer.cancel(); the same for period_task
CancelKiller(task) == IF task = "alive" THEN "cancelled" ELSE task

\* What cancelling the background loop does to the handler task: the
\* cancellation goes to the task the loop awaits, so it reaches the handler
\* only at `await handler`.
CancelHandler(stage, task) ==
    IF stage = "handler" /\ task = "running" THEN "cancelled" ELSE task

\* Base.start, all of it: last_updated_at = now, background_loop.cancel(),
\* timeout_killer.cancel(), period_task.cancel(), a new background loop task.
\* The cancelled loop's CancelledError is raised at its await: at `await setup`
\* it cancels the setup task, at `await handler` the handler task; leaving
\* `async with` closes the socket (the close handshake takes time).
BaseStart ==
    /\ base_fresh' = TRUE
    /\ background_loop' = "connect"
    /\ timeout_killer' = CancelKiller(timeout_killer)
    /\ period_task' = CancelKiller(period_task)
    /\ IF background_loop \in {"setup", "handler"}
       THEN /\ ws_setup' = [ws_setup EXCEPT ![base_websocket] =
                              IF @ \in {"created", "auth_wait", "subscribing"}
                              THEN "cancelled" ELSE @]
            /\ ws_handler' = [ws_handler EXCEPT ![base_websocket] =
                                CancelHandler(background_loop, @)]
            /\ ws_state' = [ws_state EXCEPT ![base_websocket] =
                              IF @ = "open" THEN "closing" ELSE @]
       ELSE UNCHANGED <<ws_setup, ws_handler, ws_state>>

\* start() called from outside: the first start, or OkexAuthBase.update_auth
\* with new credentials.
CallStart ==
    /\ ~shutdowned
    /\ BaseStart
    /\ UNCHANGED <<shutdowned, base_websocket, queue, login_pending, login_code,
                   auth_result, subscribed, dvars, bvars, tvars, svars, rvars, cvars, kvars, pvars, gvars>>

\* Base.shutdown: the three tasks cancelled, shutdowned set.
Shutdown ==
    /\ ~shutdowned
    /\ background_loop # "none"
    /\ shutdowned' = TRUE
    /\ background_loop' = IF background_loop \in {"connect", "setup", "handler"}
                          THEN "cancelled" ELSE background_loop
    /\ timeout_killer' = CancelKiller(timeout_killer)
    /\ period_task' = CancelKiller(period_task)
    /\ IF background_loop \in {"setup", "handler"}
       THEN /\ ws_setup' = [ws_setup EXCEPT ![base_websocket] =
                              IF @ \in {"created", "auth_wait", "subscribing"}
                              THEN "cancelled" ELSE @]
            /\ ws_handler' = [ws_handler EXCEPT ![base_websocket] =
                                CancelHandler(background_loop, @)]
            /\ ws_state' = [ws_state EXCEPT ![base_websocket] =
                              IF @ = "open" THEN "closing" ELSE @]
       ELSE UNCHANGED <<ws_setup, ws_handler, ws_state>>
    /\ UNCHANGED <<base_websocket, base_fresh, queue, login_pending, login_code,
                   auth_result, subscribed, dvars, bvars, tvars, svars, rvars, cvars, kvars, pvars, gvars>>

\* _background_loop up to `await setup`: the connection attempt raises and the
\* task ends with the exception, or the connection is established:
\* self.websocket set, the setup, handler, watchdog and period tasks created.
BackgroundConnect(ok) ==
    /\ background_loop = "connect"
    /\ IF ok
       THEN /\ \E c \in Connections : ws_state[c] = "unused"
            /\ background_loop' = "setup"
            /\ base_websocket' = NextConnection
            /\ ws_state' = [ws_state EXCEPT ![NextConnection] = "open"]
            /\ ws_setup' = [ws_setup EXCEPT ![NextConnection] = "created"]
            /\ ws_handler' = [ws_handler EXCEPT ![NextConnection] = "running"]
            /\ timeout_killer' = "alive"
            /\ period_task' = "alive"
       ELSE /\ background_loop' = "failed"
            /\ UNCHANGED <<base_websocket, ws_state, ws_setup, ws_handler, timeout_killer,
                           period_task>>
    /\ UNCHANGED <<shutdowned, base_fresh, queue, login_pending, login_code, auth_result,
                   subscribed, dvars, bvars, tvars, svars, rvars, cvars, kvars, pvars, gvars>>

\* `await setup` returns: the loop goes on to `await handler`.
BackgroundAwaitSetup ==
    /\ background_loop = "setup"
    /\ ws_setup[base_websocket] = "done"
    /\ background_loop' = "handler"
    /\ UNCHANGED <<shutdowned, base_websocket, ws_state, ws_setup, ws_handler, timeout_killer,
                   period_task, base_fresh, queue, login_pending, login_code, auth_result,
                   subscribed, dvars, bvars, tvars, svars, rvars, cvars, kvars, pvars, gvars>>

\* `await handler` returns: the loop leaves `async with` and the task ends.
BackgroundAwaitHandler ==
    /\ background_loop = "handler"
    /\ ws_handler[base_websocket] # "running"
    /\ background_loop' = "done"
    /\ UNCHANGED <<shutdowned, base_websocket, ws_state, ws_setup, ws_handler, timeout_killer,
                   period_task, base_fresh, queue, login_pending, login_code, auth_result,
                   subscribed, dvars, bvars, tvars, svars, rvars, cvars, kvars, pvars, gvars>>

\* setup and auth up to the wait for the reply: position_cache emptied,
\* login_succeed cleared, the login request sent.
AuthLogin(c) ==
    /\ ws_setup[c] = "created"
    /\ ws_state[c] = "open"
    /\ ws_setup' = [ws_setup EXCEPT ![c] = "auth_wait"]
    /\ login_pending' = login_pending \cup {c}
    /\ UNCHANGED <<shutdowned, background_loop, base_websocket, ws_state, ws_handler,
                   timeout_killer, period_task, base_fresh, queue, login_code, auth_result,
                   subscribed, dvars, bvars, tvars, svars, rvars, cvars, kvars, pvars, gvars>>

\* auth: queue.get() returns the oldest reply in self.queue. Code "0": auth
\* returns True and setup goes on to subscribe; any other code: auth returns
\* None, setup logs auth_failed and ends.
AuthGet(c) ==
    /\ ws_setup[c] = "auth_wait"
    /\ queue # <<>>
    /\ queue' = Tail(queue)
    /\ IF Head(queue).code = "0"
       THEN /\ ws_setup' = [ws_setup EXCEPT ![c] = "subscribing"]
            /\ auth_result' = [auth_result EXCEPT ![c] = "succeed"]
       ELSE /\ ws_setup' = [ws_setup EXCEPT ![c] = "done"]
            /\ auth_result' = [auth_result EXCEPT ![c] = "failed"]
    /\ UNCHANGED <<shutdowned, background_loop, base_websocket, ws_state, ws_handler,
                   timeout_killer, period_task, base_fresh, login_pending, login_code,
                   subscribed, dvars, bvars, tvars, svars, rvars, cvars, kvars, pvars, gvars>>

\* auth: wait_for raises TimeoutError after WAIT_TIMEOUT with nothing in the
\* queue; auth returns False, setup logs auth_failed and ends.
AuthTimeout(c) ==
    /\ ws_setup[c] = "auth_wait"
    /\ queue = <<>>
    /\ ws_setup' = [ws_setup EXCEPT ![c] = "done"]
    /\ auth_result' = [auth_result EXCEPT ![c] = "timeout"]
    /\ UNCHANGED <<shutdowned, background_loop, base_websocket, ws_state, ws_handler,
                   timeout_killer, period_task, base_fresh, queue, login_pending, login_code,
                   subscribed, dvars, bvars, tvars, svars, rvars, cvars, kvars, pvars, gvars>>

\* setup after a successful auth: on_auth_success, then subscribe sends the
\* subscribe request.
Subscribe(c) ==
    /\ ws_setup[c] = "subscribing"
    /\ ws_state[c] = "open"
    /\ ws_setup' = [ws_setup EXCEPT ![c] = "done"]
    /\ subscribed' = subscribed \cup {c}
    /\ UNCHANGED <<shutdowned, background_loop, base_websocket, ws_state, ws_handler,
                   timeout_killer, period_task, base_fresh, queue, login_pending, login_code,
                   auth_result, dvars, bvars, tvars, svars, rvars, cvars, kvars, pvars, gvars>>

\* send on a socket that is not open: websocket.send raises ConnectionClosed
\* and send calls self.start(), whose cancellation ends this setup task.
SendClosed(c) ==
    /\ ws_setup[c] \in {"created", "subscribing"}
    /\ ws_state[c] # "open"
    /\ BaseStart
    /\ UNCHANGED <<shutdowned, base_websocket, queue, login_pending, login_code,
                   auth_result, subscribed, dvars, bvars, tvars, svars, rvars, cvars, kvars, pvars, gvars>>

\* handler, one frame: the exchange's reply to the login of connection c.
\* last_updated_at = now, on_ws_message, handle_login puts it in self.queue.
LoginReply(c, code) ==
    /\ c \in login_pending
    /\ ws_handler[c] = "running"
    /\ login_pending' = login_pending \ {c}
    /\ login_code' = [login_code EXCEPT ![c] = code]
    /\ queue' = Append(queue, [ws |-> c, code |-> code])
    /\ base_fresh' = TRUE
    /\ UNCHANGED <<shutdowned, background_loop, base_websocket, ws_state, ws_handler,
                   ws_setup, timeout_killer, period_task, auth_result, subscribed,
                   dvars, bvars, tvars, svars, rvars, cvars, kvars, pvars, gvars>>

\* handler, one frame of a subscribed channel: last_updated_at = now.
DataFrame(c) ==
    /\ c \in subscribed
    /\ ws_handler[c] = "running"
    /\ ~base_fresh
    /\ base_fresh' = TRUE
    /\ UNCHANGED <<shutdowned, background_loop, base_websocket, ws_state, ws_handler,
                   ws_setup, timeout_killer, period_task, queue, login_pending, login_code,
                   auth_result, subscribed, dvars, bvars, tvars, svars, rvars, cvars, kvars, pvars, gvars>>

\* The socket is closed (by the peer, the network, or the end of the close
\* handshake): `async for message in self.websocket` ends and so does handler.
SocketClosed(c) ==
    /\ ws_state[c] \in {"open", "closing"}
    /\ ws_state' = [ws_state EXCEPT ![c] = "closed"]
    /\ ws_handler' = [ws_handler EXCEPT ![c] = IF @ = "running" THEN "ended" ELSE @]
    /\ UNCHANGED <<shutdowned, background_loop, base_websocket, ws_setup, timeout_killer,
                   period_task, base_fresh, queue, login_pending, login_code, auth_result,
                   subscribed, dvars, bvars, tvars, svars, rvars, cvars, kvars, pvars, gvars>>

\* More than TIMEOUT_THRESHOLD passes without a frame.
BaseTimePasses ==
    /\ base_fresh
    /\ timeout_killer = "alive"
    /\ base_fresh' = FALSE
    /\ UNCHANGED <<shutdowned, background_loop, base_websocket, ws_state, ws_handler,
                   ws_setup, timeout_killer, period_task, queue, login_pending, login_code,
                   auth_result, subscribed, dvars, bvars, tvars, svars, rvars, cvars, kvars, pvars, gvars>>

\* _timeout_killer wakes and finds the client stale: `await self.start()`.
\* start cancels self.timeout_killer, the task that is running it, so the
\* CancelledError is raised at the sleep that follows and the task ends.
TimeoutKiller ==
    /\ timeout_killer = "alive"
    /\ ~shutdowned
    /\ ~base_fresh
    /\ BaseStart
    /\ UNCHANGED <<shutdowned, base_websocket, queue, login_pending, login_code,
                   auth_result, subscribed, dvars, bvars, tvars, svars, rvars, cvars, kvars, pvars, gvars>>

AuthNext ==
    \/ CallStart
    \/ Shutdown
    \/ \E ok \in BOOLEAN : BackgroundConnect(ok)
    \/ BackgroundAwaitSetup
    \/ BackgroundAwaitHandler
    \/ \E c \in Connections : AuthLogin(c)
    \/ \E c \in Connections : AuthGet(c)
    \/ \E c \in Connections : AuthTimeout(c)
    \/ \E c \in Connections : Subscribe(c)
    \/ \E c \in Connections : SendClosed(c)
    \/ \E c \in Connections : \E code \in {"0", "1"} : LoginReply(c, code)
    \/ \E c \in Connections : DataFrame(c)
    \/ \E c \in Connections : SocketClosed(c)
    \/ BaseTimePasses
    \/ TimeoutKiller

AuthSpec == Init /\ [][AuthNext]_vars

\* The client's own tasks keep running; what the exchange, the network and
\* the callers of start and shutdown do is left open.
FairAuthSpec ==
    /\ AuthSpec
    /\ WF_vars(\E ok \in BOOLEAN : BackgroundConnect(ok))
    /\ WF_vars(BackgroundAwaitSetup)
    /\ WF_vars(BackgroundAwaitHandler)
    /\ WF_vars(\E c \in Connections : AuthLogin(c))
    /\ WF_vars(\E c \in Connections : AuthGet(c))
    /\ WF_vars(\E c \in Connections : AuthTimeout(c))
    /\ WF_vars(\E c \in Connections : Subscribe(c))
    /\ WF_vars(\E c \in Connections : SendClosed(c))
    /\ WF_vars(BaseTimePasses)
    /\ WF_vars(TimeoutKiller)

\* ------------------------- fut_publish_book and OrderBookManager (reader)
\* The sides a replica of instId can hold: prices of its ladder with stored
\* sizes.
SideMaps(instId, side) ==
    UNION {[P -> {r * contract_size(instId) : r \in RawSizes \ {0}}] :
              P \in SUBSET PriceSet(instId, side)}

\* fut_publish_book: msgpack.packb(payload), redis.set(topic, packed_payload)
\* with the payload handle_books made of the replica.
SetCache(instId, bids, asks) ==
    /\ redis_book' = ToJson([i \in {instId} |-> [bids |-> bids, asks |-> asks]], instId)
    /\ UNCHANGED <<price_read, dvars, bvars, tvars, svars, avars, rvars, kvars, pvars, gvars>>

\* data[side][depth - 1][0], or the IndexError the subscript raises
PriceAt(data, side, depth) ==
    IF depth <= Len(data[side])
    THEN [kind |-> "price", price |-> data[side][depth][1]]
    ELSE [kind |-> "IndexError", price |-> 0]

\* OrderBookManager.get_price: return float(data[side][depth_index][0])
get_price(data, side, depth) == PriceAt(data, side, depth)

\* OrderBookManager.get_orderbook_info, its price field:
\* float(data[side][depth_index][0]) if data[side] else 0
get_orderbook_info(data, side, depth) ==
    IF data[side] # <<>> THEN PriceAt(data, side, depth)
    ELSE [kind |-> "no data", price |-> 0]

\* The depths a reader asks for.
Depths == 1..(orderbook_max_depth + 1)

\* A strategy reads a price of the published book.
GetPrice(side, depth) ==
    /\ redis_book # NoPayload
    /\ price_read' = [op |-> "get_price"] @@ get_price(redis_book, side, depth)
    /\ UNCHANGED <<redis_book, dvars, bvars, tvars, svars, avars, rvars, kvars, pvars, gvars>>

GetOrderbookInfo(side, depth) ==
    /\ redis_book # NoPayload
    /\ price_read' = [op |-> "get_orderbook_info"] @@ get_orderbook_info(redis_book, side, depth)
    /\ UNCHANGED <<redis_book, dvars, bvars, tvars, svars, avars, rvars, kvars, pvars, gvars>>

ReadNext ==
    \/ \E i \in BookInstruments :
          \E bids \in SideMaps(i, "bids") : \E asks \in SideMaps(i, "asks") :
              SetCache(i, bids, asks)
    \/ \E side \in Sides : \E depth \in Depths : GetPrice(side, depth)
    \/ \E side \in Sides : \E depth \in Depths : GetOrderbookInfo(side, depth)

ReadSpec == Init /\ [][ReadNext]_vars

\* ------------- the registry under frames, instruments, tickers, reconnects
\* A size string float() cannot parse.
Unparseable == -1

\* The ts values of books items.
Timestamps == {1, 2}

\* The annotations of a replica no ticker frame has set yet (all None).
NoTicker == "none"

\* The items of self.instruments_info an instrument can get from the REST
\* reply or from an instruments push.
InfoValues(instId) ==
    IF instId = "X" THEN {[ctVal |-> Empty, ctMult |-> Empty], [ctVal |-> 2, ctMult |-> 1]}
                    ELSE {[ctVal |-> 1, ctMult |-> 1]}

\* The levels a books item can carry for a side: [price, size].
ItemLevels(instId, side) ==
    IF instId = "X"
    THEN (IF side = "bids" THEN {<<100, 0>>, <<100, 1>>, <<100, Unparseable>>}
                           ELSE {<<101, 1>>, <<101, Unparseable>>})
    ELSE (IF side = "bids" THEN {<<50, 1>>} ELSE {})

ItemSides(instId, side) == {<<>>} \cup {<<l>> : l \in ItemLevels(instId, side)}

Items(instId) ==
    [ts : Timestamps, bids : ItemSides(instId, "bids"), asks : ItemSides(instId, "asks")]

\* The books frames with their data list: one item, or for X two items of
\* which the first carries a bid and the second an ask.
BooksFrames(instId) ==
    [action : {"snapshot", "update"}, instId : {instId},
     data : {<<a>> : a \in Items(instId)}
            \cup {<<a, b>> : a \in {x \in Items(instId) : x.bids # <<>> /\ x.asks = <<>>},
                             b \in {x \in Items(instId) : x.bids = <<>> /\ x.asks # <<>>}}]

\* contract_size = float(info["ctMult"] or 1) * float(info["ctVal"] or 1),
\* from self.instruments_info as it is when the frame is handled
contract_size_now(info, instId) ==
    FieldOr1(info[instId].ctMult) * FieldOr1(info[instId].ctVal)

\* float(amount) raises ValueError on some level
Parses(levels) == \A k \in 1..Len(levels) : levels[k][2] # Unparseable

\* {float(price): float(amount) * contract_size for price, amount, *_ in levels};
\* each stored level remembers the factor it was scaled with.
RECURSIVE ScaledDict(_, _)
ScaledDict(levels, size) ==
    IF levels = <<>> THEN NoLevels
    ELSE LET d == ScaledDict(SubSeq(levels, 1, Len(levels) - 1), size)
             l == levels[Len(levels)]
         IN [p \in DOMAIN d \cup {l[1]} |->
                IF p = l[1] THEN [size |-> l[2] * size, by |-> size] ELSE d[p]]

\* The mutated snapshot: the annotations of the replaced replica are kept.
SnapshotItemKeepingTicker(books, instId, item, size) ==
    IF Parses(Top(item.bids)) /\ Parses(Top(item.asks))
    THEN [books |-> [i \in DOMAIN books \cup {instId} |->
                        IF i = instId
                        THEN [bids |-> ScaledDict(Top(item.bids), size),
                              asks |-> ScaledDict(Top(item.asks), size),
                              timestamp |-> item.ts,
                              ticker |-> IF instId \in DOMAIN books
                                         THEN books[instId].ticker ELSE NoTicker]
                        ELSE books[i]],
          raised |-> FALSE]
    ELSE [books |-> books, raised |-> TRUE]

\* One item of a snapshot frame: both dicts are built, then
\* orderbook_manager.snapshot replaces the replica (annotations None).
SnapshotItem(books, instId, item, size) ==
    IF Parses(Top(item.bids)) /\ Parses(Top(item.asks))
    THEN [books |-> [i \in DOMAIN books \cup {instId} |->
                        IF i = instId
                        THEN [bids |-> ScaledDict(Top(item.bids), size),
                              asks |-> ScaledDict(Top(item.asks), size),
                              timestamp |-> item.ts, ticker |-> NoTicker]
                        ELSE books[i]],
          raised |-> FALSE]
    ELSE [books |-> books, raised |-> TRUE]

\* The levels of one side of an update item, in wire order, up to the first
\* one float() cannot parse.
RECURSIVE UpdateLevels(_, _, _)
UpdateLevels(side, levels, size) ==
    IF levels = <<>> THEN [side |-> side, raised |-> FALSE]
    ELSE IF levels[1][2] = Unparseable THEN [side |-> side, raised |-> TRUE]
    ELSE UpdateLevels(
            IF levels[1][2] * size = 0
            THEN [p \in DOMAIN side \ {levels[1][1]} |-> side[p]]
            ELSE [p \in DOMAIN side \cup {levels[1][1]} |->
                    IF p = levels[1][1] THEN [size |-> levels[1][2] * size, by |-> size]
                    ELSE side[p]],
            Tail(levels), size)

\* One item of an update frame: bids, then asks, then orderbook.timestamp.
UpdateItem(books, instId, item, size) ==
    LET b == UpdateLevels(books[instId].bids, item.bids, size)
        a == UpdateLevels(books[instId].asks, item.asks, size)
    IN IF b.raised
       THEN [books |-> [books EXCEPT ![instId].bids = b.side], raised |-> TRUE]
       ELSE IF a.raised
       THEN [books |-> [books EXCEPT ![instId].bids = b.side, ![instId].asks = a.side],
             raised |-> TRUE]
       ELSE [books |-> [books EXCEPT ![instId].bids = b.side, ![instId].asks = a.side,
                                     ![instId].timestamp = item.ts],
             raised |-> FALSE]

\* for item in data: ... , left at the first exception
RECURSIVE ApplyItems(_, _, _, _, _)
ApplyItems(books, action, instId, data, size) ==
    IF data = <<>> THEN [books |-> books, raised |-> FALSE]
    ELSE LET r == IF action = "snapshot" THEN SnapshotItem(books, instId, data[1], size)
                  ELSE UpdateItem(books, instId, data[1], size)
         IN IF r.raised THEN r ELSE ApplyItems(r.books, action, instId, Tail(data), size)

\* handle_books up to publish_book: the registry it leaves and whether it
\* raised (KeyError for an instrument not in instruments_info, TypeError for
\* an update without a replica, ValueError for an unparseable size).
handle_books(books, info, m) ==
    IF m.instId \notin DOMAIN info THEN [books |-> books, raised |-> TRUE]
    ELSE IF m.action = "update" /\ m.instId \notin DOMAIN books
    THEN [books |-> books, raised |-> TRUE]
    ELSE ApplyItems(books, m.action, m.instId, m.data, contract_size_now(info, m.instId))

\* The mutated change_ticker: it creates the replica it does not find.
change_ticker_creating(books, instId, ticker) ==
    [i \in DOMAIN books \cup {instId} |->
        IF i # instId THEN books[i]
        ELSE IF instId \in DOMAIN books THEN [books[i] EXCEPT !.ticker = ticker]
        ELSE [bids |-> NoLevels, asks |-> NoLevels, timestamp |-> 1, ticker |-> ticker]]

\* NewOrderBookManager.change_ticker
change_ticker(books, instId, ticker) ==
    IF instId \notin DOMAIN books THEN books
    ELSE [books EXCEPT ![instId].ticker = ticker]

\* start, the connection established: a new NewOrderBookManager(), the setup
\* task created, handler() entered.
ReplicaStart ==
    /\ receive_loop = "idle"
    /\ receive_loop' = "running"
    /\ registry' = [i \in {} |-> 0]
    /\ setup_pending' = TRUE
    /\ UNCHANGED <<cached_info, unit_queued, dvars, bvars, tvars, svars, avars, cvars, kvars, pvars, gvars>>

\* setup up to its first await: a new NewOrderBookManager with the depth,
\* self.channels and self.instruments_info emptied.
ReplicaSetup ==
    /\ setup_pending
    /\ setup_pending' = FALSE
    /\ registry' = [i \in {} |-> 0]
    /\ cached_info' = [i \in {} |-> 0]
    /\ UNCHANGED <<receive_loop, unit_queued, dvars, bvars, tvars, svars, avars, cvars, kvars, pvars, gvars>>

\* parse_instruments on the REST reply of setup or on an instruments push:
\* self.instruments_info[inst_id] = item
ParseInstruments(instId, item) ==
    /\ receive_loop = "running"
    /\ ~setup_pending
    /\ cached_info' = [i \in DOMAIN cached_info \cup {instId} |->
                          IF i = instId THEN item ELSE cached_info[i]]
    /\ UNCHANGED <<registry, receive_loop, setup_pending, unit_queued,
                   dvars, bvars, tvars, svars, avars, cvars, kvars, pvars, gvars>>

\* handler, one books frame: dispatch_message, handle_books, and publish_book
\* handing the unit to a worker queue unless handle_books raised (the
\* exception is logged by handler).
ReplicaFrame(m) ==
    /\ receive_loop = "running"
    /\ ~setup_pending
    /\ registry' = handle_books(registry, cached_info, m).books
    /\ unit_queued' = (unit_queued \/ ~handle_books(registry, cached_info, m).raised)
    /\ UNCHANGED <<cached_info, receive_loop, setup_pending,
                   dvars, bvars, tvars, svars, avars, cvars, kvars, pvars, gvars>>

\* handler, one opt-summary or mark-price frame: change_ticker
TickerFrame(instId, ticker) ==
    /\ receive_loop = "running"
    /\ ~setup_pending
    /\ registry' = change_ticker(registry, instId, ticker)
    /\ UNCHANGED <<cached_info, receive_loop, setup_pending, unit_queued,
                   dvars, bvars, tvars, svars, avars, cvars, kvars, pvars, gvars>>

\* consumer_worker awaits the queued units: fut_publish_book packs the payload
\* and sets the cache.
ReplicaWorker ==
    /\ unit_queued
    /\ unit_queued' = FALSE
    /\ UNCHANGED <<registry, cached_info, receive_loop, setup_pending,
                   dvars, bvars, tvars, svars, avars, cvars, kvars, pvars, gvars>>

\* timeout_killer finds the client stale: main_task.cancel(), websocket.close()
ReplicaKill ==
    /\ receive_loop = "running"
    /\ receive_loop' = "idle"
    /\ UNCHANGED <<registry, cached_info, setup_pending, unit_queued,
                   dvars, bvars, tvars, svars, avars, cvars, kvars, pvars, gvars>>

ReplicaNext ==
    \/ ReplicaStart
    \/ ReplicaSetup
    \/ \E i \in BookInstruments : \E item \in InfoValues(i) : ParseInstruments(i, item)
    \/ \E i \in BookInstruments : \E m \in BooksFrames(i) : ReplicaFrame(m)
    \/ \E i \in BookInstruments : TickerFrame(i, "t1")
    \/ ReplicaWorker
    \/ ReplicaKill

ReplicaSpec == Init /\ [][ReplicaNext]_vars

\* ------------------------------------------------ the publish units
\* The sizes of a side as to_list() reports them.
Sizes(side) == [p \in DOMAIN side |-> side[p].size]

\* handle_books after the frame is applied: orderbook.to_json() builds a new
\* dict with new lists from the replica as it is now (levels, timestamp,
\* annotations), and publish_book passes it to the coroutine it creates.
ReplicaJson(books, instId) ==
    [instrument_name |-> instId,
     bids |-> ToList(Sizes(books[instId].bids), "bids", orderbook_max_depth),
     asks |-> ToList(Sizes(books[instId].asks), "asks", orderbook_max_depth),
     data_ms |-> books[instId].timestamp,
     mark_price |-> books[instId].ticker]

\* The mutated unit: it serializes the replica when it executes.
UnitPayloadLive(captured, books) ==
    IF captured.instrument_name \in DOMAIN books
    THEN ReplicaJson(books, captured.instrument_name)
    ELSE captured

\* fut_publish_book: msgpack.packb(payload) of the dict the coroutine was
\* created with, whatever the registry holds when it runs.
UnitPayload(captured, books) == captured

\* The books frames of this specification: one item with parseable bids and
\* no asks; for Y the one snapshot with its bid.
PublishFrames(instId) ==
    {m \in BooksFrames(instId) :
        /\ Len(m.data) = 1
        /\ m.data[1].asks = <<>>
        /\ Parses(m.data[1].bids)
        /\ (instId = "X" => m.data[1].bids \in {<<>>, <<<<100, 1>>>>})
        /\ (instId = "Y" => m.action = "snapshot" /\ m.data[1].ts = 1
                            /\ m.data[1].bids # <<>>)}

\* The instruments_info items of this specification: one per instrument.
PublishInfo(instId) == {v \in InfoValues(instId) : v.ctVal # Empty}

\* handler, one books frame: handle_books, and unless it raised
\* publish_book -> task_dispatch -> queue.put of the coroutine holding the
\* payload (the handler takes no frame while the put waits for room).
PublishFrame(m) ==
    /\ receive_loop = "running"
    /\ ~setup_pending
    /\ Len(unit_payloads) < SPIDER_WEBSOCKET_MESSAGE_QUEUE_MAX_SIZE
    /\ registry' = handle_books(registry, cached_info, m).books
    /\ unit_payloads' =
          IF handle_books(registry, cached_info, m).raised THEN unit_payloads
          ELSE Append(unit_payloads,
                      ReplicaJson(handle_books(registry, cached_info, m).books, m.instId))
    /\ UNCHANGED <<cached_info, receive_loop, setup_pending, unit_queued, redis_cache,
                   dvars, bvars, tvars, svars, avars, cvars, kvars, gvars>>

\* consumer_worker: fut = await queue.get(); await fut, which packs the
\* payload and sets the cache under the instrument's topic.
PublishWorker ==
    /\ unit_payloads # <<>>
    /\ unit_payloads' = Tail(unit_payloads)
    /\ redis_cache' =
          [i \in DOMAIN redis_cache \cup {Head(unit_payloads).instrument_name} |->
              IF i = Head(unit_payloads).instrument_name
              THEN UnitPayload(Head(unit_payloads), registry)
              ELSE redis_cache[i]]
    /\ UNCHANGED <<rvars, dvars, bvars, tvars, svars, avars, cvars, kvars, gvars>>

PublishNext ==
    \/ ReplicaStart
    \/ ReplicaSetup
    \/ \E i \in BookInstruments : \E item \in PublishInfo(i) : ParseInstruments(i, item)
    \/ \E i \in BookInstruments : \E m \in PublishFrames(i) : PublishFrame(m)
    \/ TickerFrame("X", "t1")
    \/ PublishWorker
    \/ ReplicaKill

PublishSpec == Init /\ [][PublishNext]_vars

\* ------------------------------------------------ topics and cache keys
\* A string is the sequence of its tokens; the separators "-" and "." are
\* tokens of their own, so that split and join work on them.
RECURSIVE Split(_, _)
Split(str, sep) ==
    IF str = <<>> THEN <<<<>>>>
    ELSE LET r == Split(Tail(str), sep)
         IN IF Head(str) = sep THEN <<<<>>>> \o r
            ELSE <<<<Head(str)>> \o r[1]>> \o Tail(r)

RECURSIVE Join(_, _)
Join(parts, sep) ==
    IF parts = <<>> THEN <<>>
    ELSE IF Len(parts) = 1 THEN parts[1]
    ELSE parts[1] \o <<sep>> \o Join(Tail(parts), sep)

\* str.upper(): the tokens with lowercase letters are "book" and "None".
Upper(str) ==
    [k \in DOMAIN str |->
        IF str[k] = "book" THEN "BOOK" ELSE IF str[k] = "None" THEN "NONE" ELSE str[k]]

\* None, and how an f-string formats a value.
None == <<>>

Format(value) == IF value = None THEN <<"None">> ELSE value

\* date_to_system: 220408 -> 8APR22
date_to_system(code_part) ==
    IF code_part = <<"220408">> THEN <<"8APR22">> ELSE <<"24JUN22">>

\* re.match(r"\d{6}", part)
SixDigits(part) == part # <<>> /\ part[1] \in {"220408", "220624"}

\* str(int(float(part))): "95.0" -> "95"
IntOfFloat(part) == <<part[1]>>

\* InstrumentConverter.to_system
to_system(exchange_code) ==
    LET split == Split(exchange_code, "-")
        code_parts == IF split[2] = <<"USD">>
                      THEN <<split[1]>> \o SubSeq(split, 3, Len(split))
                      ELSE split
        n == Len(code_parts)
    IN Join(IF code_parts[n] = <<"SWAP">>
            THEN [code_parts EXCEPT ![n] = <<"PERPETUAL">>]
            ELSE IF SixDigits(code_parts[n])
            THEN [code_parts EXCEPT ![n] = date_to_system(code_parts[n])]
            ELSE IF n >= 4
            THEN (IF SixDigits(code_parts[n - 2])
                  THEN [code_parts EXCEPT ![n - 2] = date_to_system(code_parts[n - 2]),
                                          ![n - 1] = IntOfFloat(code_parts[n - 1])]
                  ELSE code_parts)
            ELSE code_parts,
            "-")

\* CURRENCY.spot_quote(): the quotes of SPOT_ACCURACY
spot_quote == {"BTC", "USDC", "USDT"}

\* `.+suffix$`
EndsWith(str, suffix) ==
    /\ Len(str) > Len(suffix)
    /\ SubSeq(str, Len(str) - Len(suffix) + 1, Len(str)) = suffix

\* `.+-quote-` at position k, with a token after it
HasQuoteAt(str, quote, k) ==
    /\ k >= 2
    /\ k + 3 <= Len(str)
    /\ str[k] = "-" /\ str[k + 1] = quote /\ str[k + 2] = "-"

\* \d{1,2}[A-Z]{3}\d{2}
SystemDate(token) == token \in {"8APR22", "24JUN22"}

\* get_subject_by: the first of the patterns that matches
get_subject_by(instrument_name) ==
    LET n == Len(instrument_name)
        IsOption == EndsWith(instrument_name, <<"-", "C">>)
                    \/ EndsWith(instrument_name, <<"-", "P">>)
    IN IF \/ EndsWith(instrument_name, <<"-", "USDT", "-", "PERPETUAL">>)
          \/ EndsWith(instrument_name, <<"-", "BUSD", "-", "PERPETUAL">>)
       THEN <<"SWAP_USDT">>
       ELSE IF EndsWith(instrument_name, <<"USDC", "-", "PERPETUAL">>)
       THEN <<"SWAP_USDC">>
       ELSE IF EndsWith(instrument_name, <<"-", "PERPETUAL">>)
       THEN <<"SWAP_USD">>
       ELSE IF IsOption /\ \E k \in 1..n : HasQuoteAt(instrument_name, "USDT", k) /\ k + 3 <= n - 2
       THEN <<"OPTION_USDT">>
       ELSE IF IsOption /\ \E k \in 1..n : HasQuoteAt(instrument_name, "USDC", k) /\ k + 3 <= n - 2
       THEN <<"OPTION_USDC">>
       ELSE IF IsOption
       THEN <<"OPTION">>
       ELSE IF \E q \in spot_quote : EndsWith(instrument_name, <<"-", q>>)
       THEN <<"SPOT">>
       ELSE IF \E k \in 1..n : HasQuoteAt(instrument_name, "USDC", k)
                               /\ SystemDate(instrument_name[k + 3])
       THEN <<"FUTURE_USDC">>
       ELSE IF \E k \in 1..n : HasQuoteAt(instrument_name, "USDT", k)
                               /\ SystemDate(instrument_name[k + 3])
       THEN <<"FUTURE_USDT">>
       ELSE IF \E k \in 2..(n - 1) : instrument_name[k] = "-"
                                     /\ SystemDate(instrument_name[k + 1])
       THEN <<"FUTURE_USD">>
       ELSE None

\* The mutated topic: the string as formatted, not uppercased.
generate_data_source_topic_as_formatted(exchange, subject, currency, instrument_name, data_type) ==
    <<"EXECUTE_ENGINE", ".", "SPIDER", ".">> \o Format(exchange) \o <<".">>
        \o Format(subject) \o <<".">> \o Format(currency) \o <<".">>
        \o Format(instrument_name) \o <<".">> \o Format(data_type)

\* generate_data_source_topic
generate_data_source_topic(exchange, subject, currency, instrument_name, data_type) ==
    Upper(<<"EXECUTE_ENGINE", ".", "SPIDER", ".">> \o Format(exchange) \o <<".">>
          \o Format(subject) \o <<".">> \o Format(currency) \o <<".">>
          \o Format(instrument_name) \o <<".">> \o Format(data_type))

\* OkexWSClient.EXCHANGE
EXCHANGE == <<"OKEX">>

\* BaseWSClient.build_topic for a data type other than index_price
build_topic(instrument_name, data_type, subject_type) ==
    generate_data_source_topic(
        EXCHANGE,
        IF subject_type # None THEN subject_type ELSE get_subject_by(instrument_name),
        Split(instrument_name, "-")[1],
        instrument_name,
        data_type)

\* handle_books: the topic it publishes the book of instId under
books_topic(instId) ==
    build_topic(to_system(instId), <<"book">>, get_subject_by(to_system(instId)))

\* OrderBookManager.get_orderbook: the key it reads
get_orderbook_key(instrument_name) ==
    <<"EXECUTE_ENGINE", ".", "SPIDER", ".", "OKEX", ".">>
        \o Format(get_subject_by(instrument_name)) \o <<".">>
        \o Format(Split(instrument_name, "-")[1]) \o <<".">>
        \o Format(instrument_name) \o <<".", "BOOK">>

\* str.startswith
StartsWith(str, prefix) ==
    Len(str) >= Len(prefix) /\ SubSeq(str, 1, Len(prefix)) = prefix

\* parse_topic_type
parse_topic_type(topic) ==
    IF StartsWith(topic, <<"EXECUTE_ENGINE", ".", "ACCOUNT">>) THEN Split(topic, ".")[5]
    ELSE IF StartsWith(topic, <<"EXECUTE_ENGINE", ".", "SPIDER">>) THEN Split(topic, ".")[7]
    ELSE IF StartsWith(topic, <<"EXECUTE_ENGINE", ".", "ORDER_MANAGER">>) THEN Split(topic, ".")[3]
    ELSE IF StartsWith(topic, <<"EXECUTE_ENGINE", ".", "RAW_ORDER_MANAGER">>) THEN Split(topic, ".")[3]
    ELSE <<"-">>

\* The instIds the exchange lists.
InstIds ==
    {<<"BTC", "-", "USDT">>,
     <<"ETH", "-", "BTC">>,
     <<"BTC", "-", "USD", "-", "SWAP">>,
     <<"BTC", "-", "USDT", "-", "SWAP">>,
     <<"ETH", "-", "USDC", "-", "SWAP">>,
     <<"BTC", "-", "USD", "-", "220408">>,
     <<"ETH", "-", "USDT", "-", "220624">>,
     <<"BTC", "-", "USD", "-", "220624", "-", "95", ".", "0", "-", "C">>,
     <<"ETH", "-", "USDC", "-", "220624", "-", "3000", "-", "P">>,
     <<"BTC", "-", "EUR">>,
     <<"XRP", "-", "USDT">>}

\* The currencies the spider is started with.
interest_currencies == {"BTC", "ETH"}

\* parse_instruments: instrument_prefix_re or spot_instrument_prefix_re
\* matches the instId
Subscribed(instId) ==
    \/ /\ Len(instId) >= 4
       /\ instId[1] \in interest_currencies
       /\ instId[2] = "-"
       /\ instId[3] \in {"USD", "USDT", "USDC"}
       /\ instId[4] = "-"
    \/ /\ Len(instId) = 3
       /\ instId[1] \in interest_currencies
       /\ instId[2] = "-"
       /\ instId[3] \in spot_quote

\* A worker executes the unit of a books frame of a subscribed instrument:
\* redis.set(topic, packed_payload)
CacheBook(instId) ==
    /\ Subscribed(instId)
    /\ redis_keys' = redis_keys \cup {books_topic(instId)}
    /\ UNCHANGED <<lookup, dvars, bvars, tvars, svars, avars, rvars, cvars, pvars, gvars>>

\* The strategy takes the instrument name from a key of redis.keys(...) and
\* asks OrderBookManager for its book.
GetOrderbook(key) ==
    /\ key \in redis_keys
    /\ Len(Split(key, ".")) = 7
    /\ lookup' = [name |-> Split(key, ".")[6],
                  key |-> get_orderbook_key(Split(key, ".")[6]),
                  hit |-> get_orderbook_key(Split(key, ".")[6]) \in redis_keys]
    /\ UNCHANGED <<redis_keys, dvars, bvars, tvars, svars, avars, rvars, cvars, pvars, gvars>>

KeyNext ==
    \/ \E instId \in InstIds : CacheBook(instId)
    \/ \E key \in redis_keys : GetOrderbook(key)

KeySpec == Init /\ [][KeyNext]_vars

\* ------------------------------- dispatch_message and last_updated_at
\* What the handling of a frame comes to: a books frame (publish_book hands
\* the unit over), a frame of unknown kind (handle_unknown), a frame
\* json.loads cannot decode, a frame whose handler raises.
FrameOutcomes == {"books", "unknown", "undecoded", "raised"}

Dispatching(outcome) ==
    [action |-> outcome, instId |-> "", existed |-> FALSE, deleted |-> 0, skipped |-> 0]

\* The mutated dispatch_message: the assignment sits in a finally clause.
ReturnsAlways(outcome) == TRUE

\* `await getattr(self, f"handle_{event}")(message)` returns normally
Returns(outcome) == outcome \in {"books", "unknown"}

\* start: the connection is established; handler() begins to read frames.
StampConnect ==
    /\ conn \in {"none", "cancelled"}
    /\ conn' = "recv"
    /\ websocket' = "open"
    /\ UNCHANGED <<now, last_updated_at, sup_pc, sup_wake, wd_pc, wd_wake, connection_id,
                   last_kill_at, last_start_at, dvars, bvars, svars, avars, rvars, cvars, kvars, pvars, gvars>>

\* handler takes a frame and dispatch_message runs up to its handler's end or,
\* for a books frame whose queue is full, up to the suspended queue.put.
StampFrame(outcome, full) ==
    /\ conn = "recv"
    /\ handled = NotHandled
    /\ handled' = Dispatching(outcome)
    /\ conn' = IF outcome = "books" /\ full THEN "put" ELSE conn
    /\ UNCHANGED <<orderbooks, message, json_orderbook, dropped, now, last_updated_at,
                   sup_pc, sup_wake, websocket, wd_pc, wd_wake, connection_id,
                   last_kill_at, last_start_at, dvars, svars, avars, rvars, cvars, kvars, pvars, gvars>>

\* The suspended queue.put gets room and completes.
StampResume ==
    /\ conn = "put"
    /\ conn' = "recv"
    /\ UNCHANGED <<now, last_updated_at, sup_pc, sup_wake, websocket, wd_pc, wd_wake,
                   connection_id, last_kill_at, last_start_at, dvars, bvars, svars, avars,
                   rvars, cvars, kvars, pvars, gvars>>

\* dispatch_message ends: `self.last_updated_at = time.time()` after the
\* handler returned, or the exception reaches handler(), which logs it.
StampReturn ==
    /\ conn = "recv"
    /\ handled # NotHandled
    /\ handled' = NotHandled
    /\ last_updated_at' = IF Returns(handled.action) THEN now ELSE last_updated_at
    /\ UNCHANGED <<orderbooks, message, json_orderbook, dropped, now, sup_pc, sup_wake,
                   conn, websocket, wd_pc, wd_wake, connection_id, last_kill_at,
                   last_start_at, dvars, svars, avars, rvars, cvars, kvars, pvars, gvars>>

\* timeout_killer cancels the main task while it awaits a frame or a put.
StampKill ==
    /\ \/ conn = "put"
       \/ conn = "recv" /\ handled = NotHandled
    /\ conn' = "cancelled"
    /\ websocket' = "closed"
    /\ handled' = NotHandled
    /\ UNCHANGED <<orderbooks, message, json_orderbook, dropped, now, last_updated_at,
                   sup_pc, sup_wake, wd_pc, wd_wake, connection_id, last_kill_at,
                   last_start_at, dvars, svars, avars, rvars, cvars, kvars, pvars, gvars>>

\* One second passes while the main task is suspended.
StampTick ==
    /\ handled = NotHandled \/ conn = "put"
    /\ now < MaxTime
    /\ now' = now + 1
    /\ UNCHANGED <<last_updated_at, sup_pc, sup_wake, conn, websocket, wd_pc, wd_wake,
                   connection_id, last_kill_at, last_start_at, dvars, bvars, svars, avars,
                   rvars, cvars, kvars, pvars, gvars>>

StampNext ==
    \/ StampConnect
    \/ \E outcome \in FrameOutcomes : \E full \in BOOLEAN : StampFrame(outcome, full)
    \/ StampResume
    \/ StampReturn
    \/ StampKill
    \/ StampTick

StampSpec == Init /\ [][StampNext]_vars

\* ------------------------------------------------ SpotFutureArbitrage
\* The mutated loop: it does not wait for init_event.
InitEventWaitSkipped(is_set) == TRUE

\* `await self.init_event.wait()` returns
InitEventWait(is_set) == is_set

\* start: init_account (redis, account, strategy config, the trading client
\* started) and the periodic task; the loop then waits for init_event. If
\* init_account raises, start ends.
InitAccount(ok) ==
    /\ strategy_pc = "init_account"
    /\ strategy_pc' = IF ok THEN "wait" ELSE "failed"
    /\ UNCHANGED <<init_event, opened, closed, background_tasks, dvars, bvars, tvars, svars, avars, rvars, cvars, kvars, pvars>>

\* start: init_event.wait() returns; the task of open_positions_by_rank is
\* created and awaited.
WaitReturns ==
    /\ strategy_pc = "wait"
    /\ InitEventWait(init_event)
    /\ strategy_pc' = "opening"
    /\ UNCHANGED <<init_event, opened, closed, background_tasks, dvars, bvars, tvars, svars, avars, rvars, cvars, kvars, pvars>>

\* open_positions_by_rank ends: no rank qualifies, or open_position submits
\* the batch of the first rank that does (batch_take_order), or it raises.
OpenPositionsByRank(outcome) ==
    /\ strategy_pc = "opening"
    /\ outcome = "batch" => opened < MaxBatches
    /\ opened' = IF outcome = "batch" THEN opened + 1 ELSE opened
    /\ strategy_pc' = IF outcome = "raises" THEN "error_sleep" ELSE "sleep"
    /\ UNCHANGED <<init_event, closed, background_tasks, dvars, bvars, tvars, svars, avars, rvars, cvars, kvars, pvars>>

\* start: `await asyncio.sleep(5)` of the except clause ends
ErrorSleepEnds ==
    /\ strategy_pc = "error_sleep"
    /\ strategy_pc' = "sleep"
    /\ UNCHANGED <<init_event, opened, closed, background_tasks, dvars, bvars, tvars, svars, avars, rvars, cvars, kvars, pvars>>

\* start: `await asyncio.sleep(0.5)` ends; the loop waits for init_event again
SleepEnds ==
    /\ strategy_pc = "sleep"
    /\ strategy_pc' = "wait"
    /\ UNCHANGED <<init_event, opened, closed, background_tasks, dvars, bvars, tvars, svars, avars, rvars, cvars, kvars, pvars>>

\* on_event_asset_update: self.assets[currency] = data; self.init_event.set()
AssetUpdate ==
    /\ strategy_pc \notin {"init_account", "failed"}
    /\ init_event' = TRUE
    /\ UNCHANGED <<strategy_pc, opened, closed, background_tasks, dvars, bvars, tvars, svars, avars, rvars, cvars, kvars, pvars>>

\* on_event_order_update: create_task(self._order_update, data)
OrderUpdate ==
    /\ strategy_pc \notin {"init_account", "failed"}
    /\ background_tasks' = background_tasks \cup {"_order_update"}
    /\ UNCHANGED <<strategy_pc, init_event, opened, closed, dvars, bvars, tvars, svars, avars, rvars, cvars, kvars, pvars>>

\* on_event_position_update: create_task(self._check_positions_to_close, data)
PositionUpdate ==
    /\ strategy_pc \notin {"init_account", "failed"}
    /\ background_tasks' = background_tasks \cup {"_check_positions_to_close"}
    /\ UNCHANGED <<strategy_pc, init_event, opened, closed, dvars, bvars, tvars, svars, avars, rvars, cvars, kvars, pvars>>

\* _order_update ends (the order row is written); the done callback discards
\* the task.
OrderTaskDone ==
    /\ "_order_update" \in background_tasks
    /\ background_tasks' = background_tasks \ {"_order_update"}
    /\ UNCHANGED <<strategy_pc, init_event, opened, closed, dvars, bvars, tvars, svars, avars, rvars, cvars, kvars, pvars>>

\* _check_positions_to_close ends: nothing to close, or close_positions
\* submits the closing batch (it reads self.assets[currency], which takes an
\* asset update to exist), or it raises.
CheckPositionsToClose(outcome) ==
    /\ "_check_positions_to_close" \in background_tasks
    /\ outcome = "batch" => (init_event /\ closed < MaxBatches)
    /\ closed' = IF outcome = "batch" THEN closed + 1 ELSE closed
    /\ background_tasks' = background_tasks \ {"_check_positions_to_close"}
    /\ UNCHANGED <<strategy_pc, init_event, opened, dvars, bvars, tvars, svars, avars, rvars, cvars, kvars, pvars>>

StrategyNext ==
    \/ \E ok \in BOOLEAN : InitAccount(ok)
    \/ WaitReturns
    \/ \E outcome \in {"none", "batch", "raises"} : OpenPositionsByRank(outcome)
    \/ ErrorSleepEnds
    \/ SleepEnds
    \/ AssetUpdate
    \/ OrderUpdate
    \/ PositionUpdate
    \/ OrderTaskDone
    \/ \E outcome \in {"none", "batch", "raises"} : CheckPositionsToClose(outcome)

StrategySpec == Init /\ [][StrategyNext]_vars

\* ------------------------------------------------------------ unit status
Queued(u) ==
    \E q \in 1..Len(queue_object_caches) :
        \E k \in 1..Len(queue_object_caches[q]) : queue_object_caches[q][k] = u

Running(u) == \E q \in 1..Len(worker) : worker[q] = u

Ended(u) == \E k \in 1..Len(finished[u[1]]) : finished[u[1]][k] = u[2]

Waiting(u) == Queued(u) \/ pending_put = u

NoUnitDropped ==
    \A i \in Instruments :
        /\ \A n \in 1..handed[i] :
              Waiting(Unit(i, n)) \/ Running(Unit(i, n)) \/ Ended(Unit(i, n))
        /\ \A k \in 1..Len(finished[i]) : \A j \in 1..(k - 1) :
              finished[i][j] # finished[i][k]

\* C3: the run loop never exits, and whenever the main task has ended
\* (returned or cancelled) a new main task is eventually created.
MainTaskRestarts ==
    /\ [](run_pc # "exited")
    /\ (main_task \in {"returned", "cancelled"}) ~> (main_task = "connect")

\* C3 witness: a new main task has been created after the watchdog cancelled
\* the previous one (the watchdog is still cooling down).
MainTaskRestartsWitness ==
    /\ killer_pc = "cooldown"
    /\ main_task = "connect"
    /\ run_pc = "await"

\* C9: sticky assignment. A bound instrument's queue never changes, and every
\* waiting unit of an instrument waits on the queue the instrument is bound to.
StickyAssignment ==
    /\ [][\A i \in Instruments :
            map_instrument_queue[i] # 0 => map_instrument_queue'[i] = map_instrument_queue[i]]_vars
    /\ [](\A q \in 1..Len(queue_object_caches) :
            \A k \in 1..Len(queue_object_caches[q]) :
                map_instrument_queue[queue_object_caches[q][k][1]] = q)

\* C9 witness: after pool exhaustion (the cycle iterator exists) and a forced
\* reconnect, a bound instrument has had a second unit dispatched.
StickyAssignmentWitness ==
    /\ gen_cycle_queue_cache # 0
    /\ killer_pc = "cooldown"
    /\ main_task = "recv"
    /\ \E i \in Instruments : handed[i] >= 2

\* C10: bounded worker count. There are never more than
\* SPIDER_CONSUMER_WORKERS queues, nor more worker loops than queues.
BoundedWorkers ==
    /\ Len(queue_object_caches) <= SPIDER_CONSUMER_WORKERS
    /\ Len(worker) = Len(queue_object_caches)

\* C10 witness: more distinct instruments than workers have been dispatched.
BoundedWorkersWitness ==
    /\ Cardinality({i \in Instruments : map_instrument_queue[i] # 0}) > SPIDER_CONSUMER_WORKERS
    /\ Len(queue_object_caches) = SPIDER_CONSUMER_WORKERS

\* C11: bounded queues with backpressure. No queue ever holds more than
\* SPIDER_WEBSOCKET_MESSAGE_QUEUE_MAX_SIZE units; a dispatch to a queue that
\* holds that many leaves the queue as it is and suspends the receive loop in
\* the put; and the suspended put completes only in a step that finds room,
\* which only a dequeue by the worker makes.
BoundedQueues ==
    /\ [](\A q \in 1..Len(queue_object_caches) :
            Len(queue_object_caches[q]) <= SPIDER_WEBSOCKET_MESSAGE_QUEUE_MAX_SIZE)
    /\ [][\A i \in Instruments :
            (/\ handed'[i] = handed[i] + 1
             /\ TargetQueue(i) <= Len(queue_object_caches)
             /\ Len(queue_object_caches[TargetQueue(i)])
                    = SPIDER_WEBSOCKET_MESSAGE_QUEUE_MAX_SIZE)
            => /\ main_task' = "put"
               /\ pending_put' = Unit(i, handed'[i])
               /\ queue_object_caches' = queue_object_caches]_vars
    /\ [](main_task = "put" =>
            /\ pending_put # NoUnit
            /\ map_instrument_queue[pending_put[1]] # 0)
    /\ [][(main_task = "put" /\ main_task' = "recv") =>
            LET q == map_instrument_queue[pending_put[1]]
            IN /\ Len(queue_object_caches[q]) < SPIDER_WEBSOCKET_MESSAGE_QUEUE_MAX_SIZE
               /\ queue_object_caches'[q] = Append(queue_object_caches[q], pending_put)]_vars

\* C11 witness: the receive loop is suspended in a put on a queue that holds
\* SPIDER_WEBSOCKET_MESSAGE_QUEUE_MAX_SIZE units while the worker of that
\* queue is executing an earlier unit (it has dequeued before).
BoundedQueuesWitness ==
    /\ main_task = "put"
    /\ LET q == map_instrument_queue[pending_put[1]]
       IN /\ Len(queue_object_caches[q]) = SPIDER_WEBSOCKET_MESSAGE_QUEUE_MAX_SIZE
          /\ worker[q] \notin {NoUnit, DeadWorker}

\* C12: failure isolation. No worker loop ever dies; the step in which a
\* worker's unit ends, with an exception or without, marks that unit done,
\* puts the worker back at queue.get() and changes no queue and no other
\* worker; and the unit a worker takes next is the head of its queue.
WorkerSurvives ==
    /\ [](\A q \in 1..Len(worker) : worker[q] # DeadWorker)
    /\ [][\A q \in 1..Len(worker) :
            (worker[q] # NoUnit /\ worker'[q] # worker[q])
            => /\ worker'[q] = NoUnit
               /\ finished'[worker[q][1]] = Append(finished[worker[q][1]], worker[q][2])
               /\ queue_object_caches' = queue_object_caches
               /\ \A r \in 1..Len(worker) : r # q => worker'[r] = worker[r]]_vars
    /\ [][\A q \in 1..Len(worker) :
            (worker[q] = NoUnit /\ worker'[q] # NoUnit)
            => /\ queue_object_caches[q] # <<>>
               /\ worker'[q] = Head(queue_object_caches[q])
               /\ queue_object_caches'[q] = Tail(queue_object_caches[q])]_vars

\* C12 witness: the first unit of an instrument raised, the worker went on
\* and executed the instrument's second unit, and a unit of an instrument
\* bound to another queue was executed too.
WorkerSurvivesWitness ==
    \E i \in Instruments : \E j \in Instruments :
        /\ raised = Unit(i, 1)
        /\ finished[i] = <<1, 2>>
        /\ map_instrument_queue[j] # 0
        /\ map_instrument_queue[j] # map_instrument_queue[i]
        /\ finished[j] # <<>>

\* Every queue is empty, no worker holds a unit and no put is suspended.
Drained ==
    /\ main_task # "put"
    /\ \A q \in 1..Len(queue_object_caches) :
          queue_object_caches[q] = <<>> /\ worker[q] = NoUnit

\* C35: once all queues have drained and no unit has failed, the payload
\* cached last for an instrument (the one of the unit executed last) is the
\* payload of the last books frame handled for it; and the units of an
\* instrument execute in the order of their frames, so that an older payload
\* never overwrites a newer one.
LastFrameCached ==
    /\ [](\A i \in Instruments :
            \A k \in 1..Len(finished[i]) : \A j \in 1..(k - 1) :
                finished[i][j] < finished[i][k])
    /\ []((Drained /\ raised = NoUnit) =>
            \A i \in Instruments :
                handed[i] > 0 =>
                    /\ finished[i] # <<>>
                    /\ finished[i][Len(finished[i])] = handed[i])

SingleSetupTask ==
    /\ [][setup_task'.self = "created" /\ setup_task' # setup_task
            => ~Pending(setup_task'.last)]_vars
    /\ [](~(Pending(setup_task.self) /\ Pending(setup_task.last)))

\* C15 witness: a fast reconnect. The setup task of the connection before was
\* cancelled while it was fetching, and the new one is about to subscribe.
SingleSetupTaskWitness ==
    /\ setup_task.last = "cancelled"
    /\ setup_task.self = "subscribing"
    /\ main_task = "recv"

\* C16: whenever the main task stands cancelled, its setup task is not
\* pending: it was cancelled in the same cancellation.
SetupCancelledWithMain ==
    main_task = "cancelled" => ~Pending(setup_task.self)

\* C17: the registry's manager was never created by a setup task of an
\* earlier connection: such a task writes nothing once start has created the
\* manager (and token) of the next connection.
NoStaleRegistryWrite ==
    /\ [](manager_by # "last_setup")
    /\ [][manager_by' # manager_by => manager_by' \in {"start", "setup"}]_vars
    /\ [](manager_by = "setup" => setup_task.self \notin {"none", "created"})

\* C17 witness: the watchdog cancelled the main task while setup was pending,
\* setup went on, the reconnect created a new manager and cancelled it, and the
\* setup task of the new connection has put its own manager in.
NoStaleRegistryWriteWitness ==
    /\ killer_pc = "cooldown"
    /\ setup_task.last = "cancelled"
    /\ manager_by = "setup"
    /\ main_task = "recv"

\* C21: a send that fails because the connection is closed starts a full
\* reconnect at once: when the setup task's subscribe request fails, a new
\* connection attempt is under way right after that step.
SendFailureReconnects ==
    [][(\E t \in {"self", "last"} :
            setup_task[t] = "subscribing" /\ setup_task'[t] = "failed")
          => main_task' = "connect"]_vars

\* ------------------------------------ claims on the authenticated client
\* The background loop is connecting or connected, or the watchdog runs.
SomeTaskRetries ==
    \/ background_loop \in {"connect", "setup", "handler"}
    \/ timeout_killer = "alive"

\* C13: from start() until shutdown() some task that will retry is alive:
\* the background loop is connecting or connected, or the watchdog runs.
RetryAlive ==
    (background_loop # "none" /\ ~shutdowned) => SomeTaskRetries

\* C14: at most one handler task is reading frames at any moment.
OneReceiveLoop ==
    Cardinality({c \in Connections : ws_handler[c] = "running"}) <= 1

\* C37: the login reply auth() consumes is the reply to the login request
\* that same auth() call sent; a reply left from an earlier connection or
\* from an auth() that timed out is never taken as the result of a later one.
OwnLoginReply ==
    [][\A c \in Connections :
          (/\ ws_setup[c] = "auth_wait"
           /\ ws_setup'[c] # "auth_wait"
           /\ queue # <<>>
           /\ queue' = Tail(queue))
             => Head(queue).ws = c]_vars

\* C19: no subscribe request is sent on a connection whose login timed out
\* or was answered with a code other than "0".
AuthFailureNoSubscribe ==
    \A c \in Connections :
        (login_code[c] = "1" \/ auth_result[c] \in {"timeout", "failed"})
            => c \notin subscribed

\* C20: after an authentication failure the client never stays idle for
\* good: until it is shut down, again and again a task is alive that connects
\* or will reconnect.
AuthFailureRetried ==
    []((\E c \in Connections : auth_result[c] \in {"timeout", "failed"})
          => []<>(shutdowned \/ SomeTaskRetries))

\* ---------------------------------------------------- claims on the books
\* The step in which handle_books runs on the received frame `message`.
HandleStep == message # NoMessage /\ message' = NoMessage

\* Contract value and contract multiplier of an instrument (1 when the
\* exchange gives none), as the claims name them.
ContractValue(i) ==
    IF instruments_info[i].ctVal = Empty THEN 1 ELSE instruments_info[i].ctVal

ContractMultiplier(i) ==
    IF instruments_info[i].ctMult = Empty THEN 1 ELSE instruments_info[i].ctMult

Mentioned(levels, p) == \E k \in 1..Len(levels) : levels[k][1] = p

\* The raw size of the last level of price p in the list.
LastRaw(levels, p) ==
    levels[CHOOSE k \in 1..Len(levels) :
              /\ levels[k][1] = p
              /\ \A j \in (k + 1)..Len(levels) : levels[j][1] # p][2]

\* The levels of a frame's side that handle_books looks at.
Retained(m, s) == IF m.action = "snapshot" THEN Top(m[s]) ELSE m[s]

\* C5: every level stored on either side of every replica has a strictly
\* positive size.
AllSizesPositive ==
    \A i \in DOMAIN orderbooks : \A s \in Sides :
        \A p \in DOMAIN orderbooks[i][s] : orderbooks[i][s][p] > 0

\* C6: scaling. After a snapshot or an update, a level the frame sets (its
\* last raw size r for a price, r # 0 on the update path) is stored as
\* r * contractValue * contractMultiplier; every stored size is such a
\* product of a raw size; and the serialized book carries the stored sizes.
ScalingCorrect ==
    /\ [][(HandleStep /\ handled'.action \in {"snapshot", "update"}) =>
            LET m == message
                i == m.instId
            IN \A s \in Sides : \A p \in PriceSet(i, s) :
                  (/\ Mentioned(Retained(m, s), p)
                   /\ (m.action = "snapshot" \/ LastRaw(Retained(m, s), p) # 0))
                  => /\ p \in DOMAIN orderbooks'[i][s]
                     /\ orderbooks'[i][s][p] =
                           LastRaw(Retained(m, s), p) * ContractValue(i) * ContractMultiplier(i)]_vars
    /\ [](\A i \in DOMAIN orderbooks : \A s \in Sides : \A p \in DOMAIN orderbooks[i][s] :
            \E r \in RawSizes :
                orderbooks[i][s][p] = r * ContractValue(i) * ContractMultiplier(i))
    /\ [](json_orderbook # NoPayload =>
            \A s \in Sides : \A k \in 1..Len(json_orderbook[s]) :
                LET l == json_orderbook[s][k]
                    book == orderbooks[json_orderbook.instrument_name][s]
                IN l[1] \in DOMAIN book /\ l[2] = book[l[1]])

\* C6 witness: contract value 10, multiplier 1: an update with raw size 3 at
\* price 50 was applied and 30 is stored and serialized.
ScalingCorrectWitness ==
    /\ handled.action = "update"
    /\ handled.instId = "Y"
    /\ 50 \in DOMAIN orderbooks["Y"].bids
    /\ orderbooks["Y"].bids[50] = 30
    /\ json_orderbook.bids = <<<<50, 30>>>>

\* C7: a snapshot replaces both sides wholesale. Afterwards each side holds
\* exactly the retained levels of the snapshot, scaled, whatever the replica
\* held before; the other replicas are untouched; and applying the same
\* snapshot once more yields the same serialized bids and asks.
SnapshotReplaces ==
    [][(HandleStep /\ message.action = "snapshot") =>
        LET m == message
            i == m.instId
            f == ContractValue(i) * ContractMultiplier(i)
            again == Snapshot(orderbooks', i, PureDict(Top(m.bids), contract_size(i)),
                              PureDict(Top(m.asks), contract_size(i)))
        IN /\ i \in DOMAIN orderbooks'
           /\ \A s \in Sides :
                 /\ DOMAIN orderbooks'[i][s] = {Top(m[s])[k][1] : k \in 1..Len(Top(m[s]))}
                 /\ \A p \in DOMAIN orderbooks'[i][s] :
                       orderbooks'[i][s][p] = LastRaw(Top(m[s]), p) * f
           /\ \A j \in DOMAIN orderbooks \ {i} :
                 j \in DOMAIN orderbooks' /\ orderbooks'[j] = orderbooks[j]
           /\ json_orderbook' = ToJson(orderbooks', i)
           /\ ToJson(again, i) = json_orderbook']_vars

\* C7 witness: a snapshot was applied to an instrument that already had a
\* replica; the replica now holds one ask and no bid.
SnapshotReplacesWitness ==
    /\ handled.action = "snapshot"
    /\ handled.instId = "X"
    /\ handled.existed
    /\ orderbooks["X"].bids = NoLevels
    /\ DOMAIN orderbooks["X"].asks = {101}
    /\ "Y" \in DOMAIN orderbooks

\* C8: zero-size removal. An update to an instrument with a replica raises no
\* error; a price whose last level in the update has size 0 is absent
\* afterwards (removed if it was present, still absent otherwise); a price the
\* update does not mention keeps its presence and size; other replicas are
\* unchanged.
ZeroSizeRemoval ==
    [][(HandleStep /\ message.action = "update" /\ message.instId \in DOMAIN orderbooks) =>
        LET m == message
            i == m.instId
        IN /\ handled'.action = "update"
           /\ DOMAIN orderbooks' = DOMAIN orderbooks
           /\ \A s \in Sides : \A p \in PriceSet(i, s) :
                 /\ (Mentioned(m[s], p) /\ LastRaw(m[s], p) = 0)
                       => p \notin DOMAIN orderbooks'[i][s]
                 /\ ~Mentioned(m[s], p)
                       => /\ (p \in DOMAIN orderbooks'[i][s]) = (p \in DOMAIN orderbooks[i][s])
                          /\ p \in DOMAIN orderbooks[i][s]
                                => orderbooks'[i][s][p] = orderbooks[i][s][p]
           /\ \A j \in DOMAIN orderbooks \ {i} : orderbooks'[j] = orderbooks[j]]_vars

\* C8 witness: one update deleted a present price (the bid at 100, leaving the
\* bid side empty) and carried a zero size for an absent price.
ZeroSizeRemovalWitness ==
    /\ handled.action = "update"
    /\ handled.instId = "X"
    /\ handled.deleted = 1
    /\ handled.skipped = 1
    /\ orderbooks["X"].bids = NoLevels
    /\ json_orderbook.bids = <<>>

Orders(n) == {f \in [1..n -> 1..n] : \A j, k \in 1..n : f[j] = f[k] => j = k}

Reordered(levels, f) == [k \in 1..Len(levels) |-> levels[f[k]]]

DistinctPrices(levels) ==
    \A j, k \in 1..Len(levels) : levels[j][1] = levels[k][1] => j = k

\* C22: update commutativity. When an update frame whose levels of a side
\* have pairwise distinct prices is applied, the side it leaves is the one
\* every other order of the same levels would have left.
UpdateCommutes ==
    [][(HandleStep /\ handled'.action = "update") =>
          LET m == message
              i == m.instId
          IN \A s \in Sides :
                DistinctPrices(m[s]) =>
                   \A f \in Orders(Len(m[s])) :
                      orderbooks'[i][s] =
                         ApplyLevels(orderbooks[i][s], Reordered(m[s], f), contract_size(i))]_vars

\* C22 witness: one update has just deleted both bid levels of X (its ask
\* level is still there): two updates to distinct prices of one side.
UpdateCommutesWitness ==
    /\ handled.action = "update"
    /\ handled.instId = "X"
    /\ handled.deleted = 2
    /\ orderbooks["X"].asks # NoLevels

\* C26: an update frame for an instrument without a replica leaves the
\* registry as it is (no replica created, none changed), hands nothing to
\* publish_book, and the handler takes the next frame afterwards.
UpdateWithoutReplica ==
    /\ [][(HandleStep /\ message.action = "update"
                      /\ message.instId \notin DOMAIN orderbooks)
            => /\ orderbooks' = orderbooks
               /\ json_orderbook' = NoPayload
               /\ handled'.action = "raised"
               /\ handled'.instId = message.instId]_vars
    /\ [][(handled.action = "raised" /\ ~handled.existed /\ handled' # handled)
            => /\ handled' = NotHandled
               /\ orderbooks' = orderbooks
               /\ json_orderbook' = NoPayload]_vars

UpdateWithoutReplicaWitness ==
    /\ handled.action = "raised"
    /\ handled.instId = "Y"
    /\ "X" \in DOMAIN orderbooks
    /\ "Y" \notin DOMAIN orderbooks

\* ------------------------------------------ claims on reading a price
\* What a read of the depth-th best price of a side has to return.
NthBest(data, side, depth) ==
    IF depth <= Len(data[side])
    THEN [kind |-> "price", price |-> data[side][depth][1]]
    ELSE [kind |-> "no data", price |-> 0]

\* C28: reading the N-th best price of the published book returns the price
\* of the N-th level of the side, which is sorted best first, and "no data"
\* rather than an error when the side has fewer than N levels.
NthBestPrice ==
    /\ redis_book # NoPayload =>
          /\ \A k \in 1..(Len(redis_book.bids) - 1) :
                redis_book.bids[k][1] > redis_book.bids[k + 1][1]
          /\ \A k \in 1..(Len(redis_book.asks) - 1) :
                redis_book.asks[k][1] < redis_book.asks[k + 1][1]
          /\ \A side \in Sides : \A depth \in Depths :
                /\ get_price(redis_book, side, depth) = NthBest(redis_book, side, depth)
                /\ get_orderbook_info(redis_book, side, depth) = NthBest(redis_book, side, depth)
    /\ price_read.kind \in {"none", "price", "no data"}

\* ------------------------------------------- claims on the registry
\* C23: all levels held in one replica were scaled with one and the same
\* factor, whatever an instruments push or a new setup did to the cached
\* contract parameters between the snapshot and a later update.
OneFactorPerReplica ==
    \A i \in DOMAIN registry :
        \A s \in Sides, t \in Sides :
            \A p \in DOMAIN registry[i][s], q \in DOMAIN registry[i][t] :
                registry[i][s][p].by = registry[i][t][q].by

\* C24: the timestamp recorded in a replica never decreases, whatever
\* timestamps the snapshot and update frames carry.
TimestampNeverDecreases ==
    [][\A i \in DOMAIN registry \cap DOMAIN registry' :
          registry'[i].timestamp >= registry[i].timestamp]_vars

MalformedSnapshot(m) ==
    /\ m.action = "snapshot"
    /\ \E k \in 1..Len(m.data) :
          ~Parses(Top(m.data[k].bids)) \/ ~Parses(Top(m.data[k].asks))

\* C25: a snapshot frame with a retained level that cannot be parsed is
\* rejected: handling it leaves the registry as it was and publishes nothing.
MalformedSnapshotRejected ==
    (receive_loop = "running" /\ ~setup_pending) =>
        \A i \in BookInstruments : \A m \in BooksFrames(i) :
            MalformedSnapshot(m) =>
                /\ handle_books(registry, cached_info, m).books = registry
                /\ handle_books(registry, cached_info, m).raised

\* C27: change_ticker for an instrument without a replica changes nothing;
\* for an instrument with a replica it replaces the annotations only, both
\* sides and the timestamp of that replica and every other replica stay.
TickerOnly ==
    \A i \in BookInstruments : \A t \in {NoTicker, "t1"} :
        LET after == change_ticker(registry, i, t)
        IN /\ DOMAIN after = DOMAIN registry
           /\ \A j \in DOMAIN registry \ {i} : after[j] = registry[j]
           /\ i \in DOMAIN registry =>
                 /\ after[i].bids = registry[i].bids
                 /\ after[i].asks = registry[i].asks
                 /\ after[i].timestamp = registry[i].timestamp
                 /\ after[i].ticker = t

TickerOnlyWitness ==
    /\ "X" \in DOMAIN registry
    /\ registry["X"].ticker = "t1"
    /\ registry["X"].bids # NoLevels
    /\ registry["X"].asks # NoLevels
    /\ "Y" \notin DOMAIN registry

\* C29: a replica, once created, stays in the registry with its levels
\* through frames of other instruments and through reconnects; only a
\* snapshot of the same instrument replaces it.
ReplicaStays ==
    /\ [][\A i \in DOMAIN registry : i \in DOMAIN registry']_vars
    /\ [][\A i \in DOMAIN registry \cap DOMAIN registry' :
             (receive_loop' # receive_loop \/ setup_pending' # setup_pending)
                => registry'[i] = registry[i]]_vars

\* C30: the registry and its replicas change only in the step that handles a
\* frame; the watchdog's step and the workers' step leave them unchanged.
OnlyFramesWrite ==
    [][registry' # registry =>
          /\ receive_loop = "running" /\ receive_loop' = "running"
          /\ ~setup_pending /\ ~setup_pending'
          /\ ~(unit_queued /\ ~unit_queued')]_vars

\* C38: an update frame is applied all-or-nothing: when handling it raises,
\* the levels and the timestamp of the replica are as they were before.
UpdateAllOrNothing ==
    (receive_loop = "running" /\ ~setup_pending) =>
        \A i \in BookInstruments : \A m \in BooksFrames(i) :
            (m.action = "update" /\ handle_books(registry, cached_info, m).raised)
                => handle_books(registry, cached_info, m).books = registry

\* C39: a snapshot for an instrument that has a replica leaves the new
\* replica without annotations, whatever they were, and they stay unset
\* until a change_ticker for that instrument sets them.
SnapshotDropsTicker ==
    /\ [](receive_loop = "running" /\ ~setup_pending =>
            \A i \in DOMAIN registry \cap DOMAIN cached_info : \A m \in BooksFrames(i) :
                (m.action = "snapshot" /\ ~MalformedSnapshot(m))
                    => handle_books(registry, cached_info, m).books[i].ticker = NoTicker)
    /\ [][\A i \in DOMAIN registry \cap DOMAIN registry' :
             (registry[i].ticker = NoTicker /\ registry'[i].ticker # NoTicker)
                => registry' = change_ticker(registry, i, registry'[i].ticker)]_vars

SnapshotDropsTickerWitness ==
    /\ receive_loop = "running"
    /\ ~setup_pending
    /\ "Y" \in DOMAIN registry \cap DOMAIN cached_info
    /\ registry["Y"].ticker = "t1"
    /\ "X" \in DOMAIN registry
    /\ registry["X"].ticker = NoTicker

\* ------------------------------------------- claims on staleness (timed)
\* A cancellation by the watchdog has happened since the client became stale,
\* whenever the client has been stale for more than d seconds.
KilledWithin(d) ==
    now > last_updated_at + TIMEOUT_THRESHOLD + d
        => last_kill_at > last_updated_at + TIMEOUT_THRESHOLD

\* A new main task (a reconnect) has been created since the client became
\* stale, whenever the client has been stale for more than d seconds.
ReconnectedWithin(d) ==
    now > last_updated_at + TIMEOUT_THRESHOLD + d
        => last_start_at > last_updated_at + TIMEOUT_THRESHOLD

\* The watchdog's kill leaves no running main task and no open socket.
KillEffect ==
    last_kill_at' # last_kill_at => (conn' \notin {"connect", "recv"} /\ websocket' # "open")

\* A newly established connection carries a token different from the one
\* before.
TokenChanges ==
    (conn = "connect" /\ conn' = "recv") => connection_id' # connection_id

CooldownAfterKill ==
    [][(/\ wd_pc = "period"
        /\ now = wd_wake
        /\ <<wd_pc, wd_wake>>' # <<wd_pc, wd_wake>>
        /\ last_kill_at # -1)
          => now >= last_kill_at + TIMEOUT_KILLER_COOLDOWN]_vars

\* C34: last_updated_at is set, to the current time, exactly in the step in
\* which dispatch_message returns normally for a frame (a frame of unknown
\* kind included); a frame whose decoding or handler raises, a dispatch
\* still suspended on a full queue, the cancellation of the main task and a
\* new connection leave it unchanged.
StampedOnReturn ==
    [][IF /\ conn = "recv" /\ conn' = "recv"
          /\ handled.action \in {"books", "unknown"}
          /\ handled' = NotHandled
       THEN last_updated_at' = now
       ELSE last_updated_at' = last_updated_at]_vars

StampedOnReturnWitness ==
    /\ conn = "put"
    /\ handled.action = "books"
    /\ last_updated_at > 0
    /\ now > last_updated_at + TIMEOUT_THRESHOLD

FrameApplied(m) ==
    /\ Len(unit_payloads') >= Len(unit_payloads)
    /\ receive_loop = "running"
    /\ ~setup_pending
    /\ Len(unit_payloads) < SPIDER_WEBSOCKET_MESSAGE_QUEUE_MAX_SIZE
    /\ ~handle_books(registry, cached_info, m).raised
    /\ registry' = handle_books(registry, cached_info, m).books
    /\ UNCHANGED <<cached_info, receive_loop, setup_pending, redis_cache>>

\* C36: a books frame handled without error hands exactly one publish unit
\* for its instrument to the dispatcher, holding the serialized state of the
\* replica right after the frame; a frame that raised hands none; a queued
\* unit keeps its payload whatever happens to the replica; and the worker
\* caches for the instrument exactly the payload the unit was handed with.
PayloadAsOfFrame ==
    [][/\ (\E i \in BookInstruments : \E m \in PublishFrames(i) : FrameApplied(m))
            => Len(unit_payloads') = Len(unit_payloads) + 1
       /\ Len(unit_payloads') > Len(unit_payloads) =>
            /\ redis_cache' = redis_cache
            /\ \E i \in BookInstruments : \E m \in PublishFrames(i) :
                  /\ FrameApplied(m)
                  /\ unit_payloads' = Append(unit_payloads, ReplicaJson(registry', i))
       /\ Len(unit_payloads') < Len(unit_payloads) =>
            /\ unit_payloads' = Tail(unit_payloads)
            /\ redis_cache'[Head(unit_payloads).instrument_name] = Head(unit_payloads)
            /\ \A i \in DOMAIN redis_cache \ {Head(unit_payloads).instrument_name} :
                  redis_cache'[i] = redis_cache[i]
       /\ Len(unit_payloads') = Len(unit_payloads) =>
            /\ unit_payloads' = unit_payloads
            /\ redis_cache' = redis_cache]_vars

\* A payload was cached that differs from what the replica held when the unit
\* executed, and another one whose replica was gone by then waits in the queue.
PayloadAsOfFrameWitness ==
    /\ "X" \in DOMAIN redis_cache
    /\ "X" \in DOMAIN registry
    /\ redis_cache["X"] # ReplicaJson(registry, "X")
    /\ registry["X"].ticker = "t1"
    /\ redis_cache["X"].mark_price = NoTicker
    /\ unit_payloads # <<>>
    /\ Head(unit_payloads).instrument_name = "Y"
    /\ "Y" \notin DOMAIN registry

\* ------------------------------------------------ claims on the strategy
\* C40: no opening order batch is submitted, and open_positions_by_rank does
\* not run, before an asset update has set init_event - whatever order and
\* position events and background tasks come in between.
NoOpenBeforeAssets ==
    /\ [](strategy_pc = "opening" => init_event)
    /\ [](~init_event => opened = 0)
    /\ [][opened' # opened => (init_event /\ strategy_pc = "opening")]_vars

NoOpenBeforeAssetsWitness ==
    /\ opened = MaxBatches
    /\ closed > 0
    /\ background_tasks # {}

====
